---- MODULE Spec2Model ----
(***************************************************************************)
(* Verification model of the mutual-fund analytics backend:                *)
(*   - the three-bucket token-bucket rate limiter (src/utils/rateLimiter)  *)
(*   - the resumable ingestion pipeline (jobs/syncJob, services/backfill,  *)
(*     services/incrementalSync)                                           *)
(* The limiter and the pipeline are checked under separate                 *)
(* specifications over one set of variables; each specification leaves     *)
(* the other subsystem's variables unchanged.                              *)
(***************************************************************************)
EXTENDS Integers, Sequences, FiniteSets, TLC

VARIABLES
  \* ---- rate limiter ----
  backend,      \* "standard" (ioredis + Lua) or "upstash" (REST, no Lua)
  now,          \* Date.now(), in model clock ticks
  store,        \* the key-value store: bucket name -> hash {tokens, last_refill}
  wpc,          \* per worker: position inside acquireToken / checkBucket
  wl,           \* per worker: locals of acquireToken and of the running checkBucket
  scriptSha,    \* the process's cached script SHA is set (module variable scriptSha)
  serverScript, \* the server's script cache holds the script
  calls,        \* number of acquireToken calls started
  faults,       \* number of store failures injected
  admitted,     \* history: time -> number of acquireToken calls that returned allowed=true
  avail,        \* history: per bucket, tokens found by the last check that created or refilled it
  granted,      \* history: per bucket, checks allowed by consuming a token since then
  clock,        \* Date.now() of a waitForToken call, in milliseconds
  waiter,       \* position and locals of a waitForToken call
  \* ---- ingestion pipeline ----
  serving,        \* the process has gone through initialize() and handles triggers
  isRunning,      \* syncJob.js module variable `let isRunning`
  runs,           \* per caller slot: position and locals of a runFullSync / runIncrementalSync call
  pipelineStatus, \* table pipeline_status, the row id = 1
  syncState,      \* table sync_state: scheme -> sync_type -> row
  navHistory,     \* table nav_history: scheme -> nav_date -> the nav of each row with that key
  funds,          \* table funds: scheme -> the row exists
  analytics,      \* analytics tables: scheme -> latest nav_date the stored analytics were computed from
  upstream,       \* mfapi.in: the latest NAV date it publishes
  injected,       \* number of faults injected (store errors, upstream errors, process kills)
  started,        \* number of runs accepted
  completions,    \* history: scheme -> times its backfill row entered 'completed'
  bfFetches,      \* history: scheme -> history requests a backfill made for it
  postState,      \* history, kept once the process has started again: what the
                  \* last run that returned left in the tables
  \* ---- admin routes ----
  res,            \* the response of POST /sync/trigger that is being sent
  \* ---- analytics engine ----
  calc,           \* a call of computeAllWindowsForScheme on a NAV history: input and results
  \* ---- scheme discovery ----
  discovery       \* a call of discoverSchemes: the catalog mfapi.in answers and the list returned

bvars == <<backend, now, store, wpc, wl, scriptSha, serverScript, calls, faults, admitted, avail, granted>>
wvars == <<clock, waiter>>
lvars == <<bvars, wvars>>
pvars == <<serving, isRunning, runs, pipelineStatus, syncState, navHistory, funds, analytics, upstream,
           injected, started, completions, bfFetches, postState>>
tvars == <<res, calc, discovery>>
vars == <<lvars, pvars, tvars>>

(***************************************************************************)
(* Bounds of the model.                                                    *)
(***************************************************************************)
NumWorkers == 2
MaxTime == 3
MaxRaceTime == 1
MaxAcquires == 4
MaxStoreFaults == 2
NumSchemes == 3
NumCallers == 2
MaxDate == 2
MaxInjected == 2
MaxStarted == 2
MaxWaitMs == 200
MaxAcquireMs == 30
MaxPoints == 3
MaxNav == 2
\* scheme discovery: distinct scheme codes and entries of the upstream catalog
MaxCodes == 2
MaxCatalog == 3

Workers == 1..NumWorkers
Times == 0..MaxTime
Schemes == 1..NumSchemes
Callers == 1..NumCallers
Dates == 1..MaxDate
SyncTypes == {"backfill", "incremental"}

Min(a, b) == IF a < b THEN a ELSE b
Max(a, b) == IF a > b THEN a ELSE b

(***************************************************************************)
(* Configuration.  config.rateLimiting is read from the environment        *)
(* (RATE_LIMIT_PER_*_{CAPACITY,REFILL_RATE,INTERVAL_MS}); the model        *)
(* instantiates it with a small configuration of the same shape as the     *)
(* defaults (refillRate = capacity tokens per interval, intervals and      *)
(* capacities increasing from per_second to per_hour), with intervals      *)
(* counted in clock ticks.  For these values the floating-point            *)
(* expressions of the code agree with exact integer arithmetic.            *)
(***************************************************************************)
rateLimiting ==
  [ per_second |-> [capacity |-> 2, refillRate |-> 2, intervalMs |-> 2],
    per_minute |-> [capacity |-> 3, refillRate |-> 3, intervalMs |-> 6],
    per_hour   |-> [capacity |-> 4, refillRate |-> 4, intervalMs |-> 12] ]

\* the order in which acquireToken walks the buckets
buckets == <<"per_second", "per_minute", "per_hour">>
BucketNames == {"per_second", "per_minute", "per_hour"}

\* a key that does not exist in the store
Missing == [present |-> FALSE, tokens |-> 0, last_refill |-> 0]

\* math.floor((elapsed / intervalMs) * refillRate)
TokensToAdd(elapsed, cfg) == (elapsed * cfg.refillRate) \div cfg.intervalMs

\* math.ceil((tokensNeeded / refillRate) * intervalMs)
WaitTimeMs(tokensNeeded, cfg) == -((-(tokensNeeded * cfg.intervalMs)) \div cfg.refillRate)

(***************************************************************************)
(* The Lua script: one atomic read-refill-consume-write on the server.     *)
(* Returns the reply {allowed, tokens, waitTimeMs} and the hash it wrote.  *)
(***************************************************************************)
TOKEN_BUCKET_LUA_Stamping(bucket, cfg, tokensRequested, currentTimeMs) ==
  LET tokens0     == IF bucket.present THEN bucket.tokens ELSE cfg.capacity
      lastRefill0 == IF bucket.present THEN bucket.last_refill ELSE currentTimeMs
      tokensToAdd == TokensToAdd(currentTimeMs - lastRefill0, cfg)
      tokens      == IF tokensToAdd > 0 THEN Min(cfg.capacity, tokens0 + tokensToAdd) ELSE tokens0
  IN IF tokens >= tokensRequested
       THEN [allowed |-> TRUE, tokensRemaining |-> tokens - tokensRequested, waitTimeMs |-> 0,
             hash |-> [present |-> TRUE, tokens |-> tokens - tokensRequested, last_refill |-> currentTimeMs]]
       ELSE [allowed |-> FALSE, tokensRemaining |-> tokens,
             waitTimeMs |-> WaitTimeMs(tokensRequested - tokens, cfg),
             hash |-> [present |-> TRUE, tokens |-> tokens, last_refill |-> currentTimeMs]]

TOKEN_BUCKET_LUA(bucket, cfg, tokensRequested, currentTimeMs) ==
  LET tokens0     == IF bucket.present THEN bucket.tokens ELSE cfg.capacity
      lastRefill0 == IF bucket.present THEN bucket.last_refill ELSE currentTimeMs
      tokensToAdd == TokensToAdd(currentTimeMs - lastRefill0, cfg)
      tokens      == IF tokensToAdd > 0 THEN Min(cfg.capacity, tokens0 + tokensToAdd) ELSE tokens0
      lastRefill  == IF tokensToAdd > 0 THEN currentTimeMs ELSE lastRefill0
  IN IF tokens >= tokensRequested
       THEN [allowed |-> TRUE, tokensRemaining |-> tokens - tokensRequested, waitTimeMs |-> 0,
             hash |-> [present |-> TRUE, tokens |-> tokens - tokensRequested, last_refill |-> lastRefill]]
       ELSE [allowed |-> FALSE, tokensRemaining |-> tokens,
             waitTimeMs |-> WaitTimeMs(tokensRequested - tokens, cfg),
             hash |-> [present |-> TRUE, tokens |-> tokens, last_refill |-> lastRefill]]

(***************************************************************************)
(* redis.hgetall on the REST client: what the client hands back for a      *)
(* stored hash.  The code wrote the fields as text (tokens.toString());    *)
(* the client is constructed with url and token only (utils/redis.js) and  *)
(* whether it hands the text "0" back as text or as the number 0 is the    *)
(* client's choice: `truthy` is the outcome of the test `bucket?.tokens ?`.*)
(* A stored last_refill is a time in epoch milliseconds and is truthy in   *)
(* either form.                                                            *)
(***************************************************************************)
hgetall(hash) ==
  IF ~hash.present THEN {[present |-> FALSE, tokens |-> 0, last_refill |-> 0, truthy |-> FALSE]}
  ELSE {[present |-> TRUE, tokens |-> hash.tokens, last_refill |-> hash.last_refill, truthy |-> v] :
          v \in IF hash.tokens = 0 THEN BOOLEAN ELSE {TRUE}}

\* peekBucket: tokens: bucket?.tokens ? parseFloat(bucket.tokens) : null, and
\* the same for last_refill; null is written -1
peekBucket(bucket) ==
  [tokens |-> IF bucket.present /\ bucket.truthy THEN bucket.tokens ELSE -1,
   lastRefill |-> IF bucket.present THEN bucket.last_refill ELSE -1]

(***************************************************************************)
(* checkBucketUpstash, the part between the hgetall and the hset: the      *)
(* same arithmetic done in the client on the reply of hgetall.             *)
(***************************************************************************)
UpstashComputeUnchecked(bucket, cfg, currentTimeMs) ==
  LET tokens0     == IF bucket.present /\ bucket.truthy THEN bucket.tokens ELSE cfg.capacity
      lastRefill0 == IF bucket.present THEN bucket.last_refill ELSE currentTimeMs
      tokensToAdd == TokensToAdd(currentTimeMs - lastRefill0, cfg)
      tokens      == IF tokensToAdd > 0 THEN Min(cfg.capacity, tokens0 + tokensToAdd) ELSE tokens0
      lastRefill  == IF tokensToAdd > 0 THEN currentTimeMs ELSE lastRefill0
  IN [allowed |-> TRUE, tokensRemaining |-> tokens - 1, waitTimeMs |-> 0,
      hash |-> [present |-> TRUE, tokens |-> tokens - 1, last_refill |-> lastRefill]]

UpstashCompute(bucket, cfg, currentTimeMs) ==
  LET tokens0     == IF bucket.present /\ bucket.truthy THEN bucket.tokens ELSE cfg.capacity
      lastRefill0 == IF bucket.present THEN bucket.last_refill ELSE currentTimeMs
      tokensToAdd == TokensToAdd(currentTimeMs - lastRefill0, cfg)
      tokens      == IF tokensToAdd > 0 THEN Min(cfg.capacity, tokens0 + tokensToAdd) ELSE tokens0
      lastRefill  == IF tokensToAdd > 0 THEN currentTimeMs ELSE lastRefill0
  IN IF tokens >= 1
       THEN [allowed |-> TRUE, tokensRemaining |-> tokens - 1, waitTimeMs |-> 0,
             hash |-> [present |-> TRUE, tokens |-> tokens - 1, last_refill |-> lastRefill]]
       ELSE [allowed |-> FALSE, tokensRemaining |-> tokens,
             waitTimeMs |-> WaitTimeMs(1 - tokens, cfg),
             hash |-> [present |-> TRUE, tokens |-> tokens, last_refill |-> lastRefill]]

\* the catch branch of checkBucketUpstash: fail open
FailOpen == [allowed |-> TRUE, tokensRemaining |-> 0, waitTimeMs |-> 0]

(***************************************************************************)
(* acquireToken: locals, loop body and return value.                       *)
(***************************************************************************)
NoRes == [allowed |-> FALSE, tokensRemaining |-> 0, waitTimeMs |-> 0, hash |-> Missing]
NoLocals == [idx |-> 0, allowed |-> TRUE, maxWaitTime |-> 0, results |-> <<>>, t |-> 0, res |-> NoRes,
             retries |-> 0]

\* what acquireToken keeps of one bucket's result
Result(r) == [allowed |-> r.allowed, waitTimeMs |-> r.waitTimeMs]

\* a loop body whose `allowed` is the last bucket's answer alone
LoopBodyLastWins(l, result) ==
  [l EXCEPT !.results = Append(@, result),
            !.allowed = result.allowed,
            !.maxWaitTime = IF ~result.allowed THEN Max(@, result.waitTimeMs) ELSE @,
            !.idx = @ + 1,
            !.res = NoRes]

\* the body of `for (const bucket of buckets)` after checkBucket has answered
LoopBody(l, result) ==
  [l EXCEPT !.results = Append(@, result),
            !.allowed = IF ~result.allowed THEN FALSE ELSE @,
            !.maxWaitTime = IF ~result.allowed THEN Max(@, result.waitTimeMs) ELSE @,
            !.idx = @ + 1,
            !.res = NoRes]

\* a loop that ends at the first bucket that denies
NextPcUntilDenied(l) == IF l.idx > Len(buckets) \/ ~l.allowed THEN "ret" ELSE "check"

\* after the loop body: the next bucket, or the end of the loop
NextPc(l) == IF l.idx > Len(buckets) THEN "ret" ELSE "check"

\* the object acquireToken returns
Returned(l) == [allowed |-> l.allowed, waitTimeMs |-> l.maxWaitTime,
                bucketStates |-> l.results]

CurBucket(w) == buckets[wl[w].idx]
CurConfig(w) == rateLimiting[CurBucket(w)]

\* tokens a check of the bucket at time t finds after the refill that is due
TokensAt(bucket, cfg, t) == TOKEN_BUCKET_LUA(bucket, cfg, 0, t).tokensRemaining

\* a check at time t creates the bucket or applies a refill to it
Refills(bucket, cfg, t) ==
  \/ ~bucket.present
  \/ TokensToAdd(t - bucket.last_refill, cfg) > 0

ghost == <<admitted, avail, granted>>

(***************************************************************************)
(* Ingestion pipeline: tables and locals.  A date is a day number, 0 is   *)
(* NULL; an error message is a string, "" is NULL.                         *)
(***************************************************************************)
\* no row for the (scheme_code, sync_type) key
NoRow == [status |-> "none", lastSyncedDate |-> 0, totalRecords |-> 0, errorMessage |-> ""]

\* syncStateDao.create: INSERT (scheme_code, sync_type, status), the other columns NULL
create(status) == [status |-> status, lastSyncedDate |-> 0, totalRecords |-> 0, errorMessage |-> ""]

\* syncStateDao.update: UPDATE ... SET the given columns WHERE the key matches;
\* no row matches when there is none
update(row, updates) ==
  IF row.status = "none" THEN row
  ELSE [f \in DOMAIN row |-> IF f \in DOMAIN updates THEN updates[f] ELSE row[f]]

\* no response of POST /sync/trigger is being sent
NoResponse == [status |-> 0, mode |-> ""]

\* no call of the analytics engine
NoCalc == [pc |-> "idle", zone |-> 0, navHistory |-> <<>>, results |-> <<>>, maxDrawdown |-> <<>>]

\* no discoverSchemes call
NoDiscovery == [pc |-> "idle", allSchemes |-> <<>>, result |-> <<>>]

\* no history of runs is kept
NoPost == [mode |-> "none", upstream |-> 0, injected |-> 0, unchanged |-> FALSE, tables |-> <<>>]

\* p where the history of runs is kept, q where it is not
Recorded(p, q) == IF postState = NoPost THEN q ELSE p

\* a caller slot that runs nothing
NoRun == [pc |-> "idle", mode |-> "none", schemes |-> <<>>, i |-> 0, error |-> "",
          lastSyncedDate |-> 0, navHistory |-> <<>>, newNavRecords |-> <<>>,
          navCount |-> 0, totalNewRecords |-> 0, got429 |-> FALSE, touched |-> {}, startStatus |-> <<>>,
          pending |-> {}, phases |-> <<>>, wroteNew |-> FALSE,
          tokenAcquired |-> FALSE, ungated |-> FALSE, nav |-> 0, overwrote |-> FALSE,
          startUpstream |-> 0, startInjected |-> 0, pre |-> NoPost,
          open |-> {}, failed |-> 0]

\* navHistoryDao.findLatestDate: SELECT MAX(nav_date), NULL when there is none
RECURSIVE SetMax(_)
SetMax(S) == IF S = {} THEN 0 ELSE LET x == CHOOSE x \in S : TRUE IN Max(x, SetMax(S \ {x}))
\* the dates for which a table of NAV rows holds a row
NavDates(rows) == {d \in Dates : rows[d] # <<>>}
findLatestDate(s) == SetMax(NavDates(navHistory[s]))

\* navHistoryDao.countByScheme
RECURSIVE RowCount(_, _)
RowCount(rows, d) == IF d = 0 THEN 0 ELSE Len(rows[d]) + RowCount(rows, d - 1)
countByScheme(s) == RowCount(navHistory[s], MaxDate)

\* the history the upstream returns: newest first
RECURSIVE NewestFirst(_)
NewestFirst(d) == IF d = 0 THEN <<>> ELSE <<d>> \o NewestFirst(d - 1)

\* Array.prototype.sort with a.date.localeCompare(b.date): ascending by date
RECURSIVE InsertAsc(_, _)
InsertAsc(x, seq) ==
  IF seq = <<>> THEN <<x>>
  ELSE IF x <= Head(seq) THEN <<x>> \o seq ELSE <<Head(seq)>> \o InsertAsc(x, Tail(seq))
RECURSIVE SortAsc(_)
SortAsc(seq) == IF seq = <<>> THEN <<>> ELSE InsertAsc(Head(seq), SortAsc(Tail(seq)))

\* mfApiClient.normalizeSchemeData(apiData).navHistory
normalizeSchemeData(data) == SortAsc(data)

\* a filter that keeps the latest stored date
FilterFrom(seq, lastSyncedDate) == SelectSeq(seq, LAMBDA d : d >= lastSyncedDate)

\* navHistory.filter(nav => nav.date > lastSyncedDate)
FilterNew(seq, lastSyncedDate) == SelectSeq(seq, LAMBDA d : d > lastSyncedDate)

\* the dates of a list of NAV records
DatesOf(seq) == {seq[k] : k \in 1..Len(seq)}

\* the schemes of S as a list in ascending order
RECURSIVE AscendingFrom(_, _)
AscendingFrom(s, S) ==
  IF s > NumSchemes THEN <<>>
  ELSE (IF s \in S THEN <<s>> ELSE <<>>) \o AscendingFrom(s + 1, S)
\* the funds whatever their backfill row says
findAllFunds == AscendingFrom(1, {s \in Schemes : funds[s]})

\* fundsDao.findWithCompletedBackfill: funds joined with completed backfill rows
findWithCompletedBackfill ==
  AscendingFrom(1, {s \in Schemes : funds[s] /\ syncState[s]["backfill"].status = "completed"})

\* mfApiClient.getAllSchemes followed by filterSchemes: the tracked schemes
discoverSchemes == AscendingFrom(1, Schemes)

\* what a sync leaves behind, timestamps aside: the NAV rows, the fund rows,
\* the analytics and status, last_synced_date and total_records of the
\* sync-state rows
Tables ==
  [navHistory |-> navHistory, funds |-> funds, analytics |-> analytics,
   syncState |-> [s \in Schemes |-> [ty \in SyncTypes |->
                    [status |-> syncState[s][ty].status,
                     lastSyncedDate |-> syncState[s][ty].lastSyncedDate,
                     totalRecords |-> syncState[s][ty].totalRecords]]]]

TablesInit ==
  /\ serving = TRUE
  /\ isRunning = FALSE
  /\ runs = [c \in Callers |-> NoRun]
  /\ pipelineStatus = [status |-> "idle", currentPhase |-> "", progressPercent |-> 0, lastError |-> ""]
  /\ syncState = [s \in Schemes |-> [ty \in SyncTypes |-> NoRow]]
  /\ navHistory = [s \in Schemes |-> [d \in Dates |-> <<>>]]
  /\ funds = [s \in Schemes |-> FALSE]
  /\ analytics = [s \in Schemes |-> 0]
  /\ upstream = 1
  /\ injected = 0
  /\ started = 0
  /\ completions = [s \in Schemes |-> 0]
  /\ bfFetches = [s \in Schemes |-> 0]
  /\ postState = NoPost
  /\ res = NoResponse

PipelineInit == TablesInit /\ calc = NoCalc /\ discovery = NoDiscovery

(***************************************************************************)
(* Rate limiter: initial state.                                            *)
(***************************************************************************)
\* no waitForToken call
NoWait == [pc |-> "idle", maxWaitMs |-> 0, startTime |-> 0, attempts |-> 0,
           result |-> [allowed |-> FALSE, waitTimeMs |-> 0], waitTime |-> 0,
           acquired |-> FALSE, acquireMs |-> 0]

StoreInit(backends) ==
  /\ clock = 0
  /\ waiter = NoWait
  /\ backend \in backends
  /\ now = 0
  /\ store = [b \in BucketNames |-> Missing]
  /\ wpc = [w \in Workers |-> "idle"]
  /\ wl = [w \in Workers |-> NoLocals]
  /\ scriptSha = TRUE        \* initialize() loads the script at startup
  /\ serverScript = TRUE
  /\ calls = 0
  /\ faults = 0
  /\ admitted = [t \in Times |-> 0]
  /\ avail = [b \in BucketNames |-> rateLimiting[b].capacity]
  /\ granted = [b \in BucketNames |-> 0]

LimiterInit(backends) == StoreInit(backends) /\ PipelineInit

(***************************************************************************)
(* Rate limiter: actions.                                                  *)
(***************************************************************************)
\* a caller enters acquireToken
acquireToken(w) ==
  /\ wpc[w] = "idle"
  /\ calls < MaxAcquires
  /\ calls' = calls + 1
  /\ wpc' = [wpc EXCEPT ![w] = "check"]
  /\ wl' = [wl EXCEPT ![w] = [NoLocals EXCEPT !.idx = 1]]
  /\ UNCHANGED <<backend, now, store, scriptSha, serverScript, faults, ghost>>
  /\ UNCHANGED <<wvars, pvars, tvars>>

\* checkBucket dispatches on the backend; the check reads Date.now() before
\* it talks to the store.  On the standard backend loadScript runs first and
\* loads the script when the cached SHA is null.
checkBucket(w) ==
  /\ wpc[w] = "check"
  /\ wl' = [wl EXCEPT ![w].t = now]
  /\ IF backend = "upstash"
       THEN /\ wpc' = [wpc EXCEPT ![w] = "hgetall"]
            /\ UNCHANGED <<scriptSha, serverScript>>
       ELSE /\ wpc' = [wpc EXCEPT ![w] = "evalsha"]
            /\ scriptSha' = TRUE
            /\ serverScript' = IF scriptSha THEN serverScript ELSE TRUE
  /\ UNCHANGED <<backend, now, store, calls, faults, ghost>>
  /\ UNCHANGED <<wvars, pvars, tvars>>

\* checkBucketStandard: the server runs the script atomically
checkBucketStandard(w) ==
  /\ wpc[w] = "evalsha"
  /\ serverScript
  /\ LET b == CurBucket(w)
         r == TOKEN_BUCKET_LUA(store[b], CurConfig(w), 1, wl[w].t)
         l == LoopBody(wl[w], Result(r))
     IN /\ store' = [store EXCEPT ![b] = r.hash]
        /\ wl' = [wl EXCEPT ![w] = [l EXCEPT !.retries = 0]]
        /\ wpc' = [wpc EXCEPT ![w] = NextPc(l)]
        /\ avail' = IF Refills(store[b], CurConfig(w), wl[w].t)
                      THEN [avail EXCEPT ![b] = TokensAt(store[b], CurConfig(w), wl[w].t)]
                      ELSE avail
        /\ granted' = [granted EXCEPT ![b] =
                         (IF Refills(store[b], CurConfig(w), wl[w].t) THEN 0 ELSE @)
                         + (IF r.allowed THEN 1 ELSE 0)]
  /\ UNCHANGED <<backend, now, scriptSha, serverScript, calls, faults, admitted>>
  /\ UNCHANGED <<wvars, pvars, tvars>>

\* checkBucketStandard: the server does not know the SHA (NOSCRIPT): the
\* cached SHA is dropped and checkBucketStandard calls itself; wl[w].retries
\* is the depth of that recursion
checkBucketStandardNoScript(w) ==
  /\ wpc[w] = "evalsha"
  /\ ~serverScript
  /\ scriptSha' = FALSE
  /\ wpc' = [wpc EXCEPT ![w] = "check"]
  /\ wl' = [wl EXCEPT ![w].retries = @ + 1]
  /\ UNCHANGED <<backend, now, store, serverScript, calls, faults, ghost>>
  /\ UNCHANGED <<wvars, pvars, tvars>>

\* checkBucketStandard: any other store error is rethrown, and acquireToken
\* does not catch it
checkBucketStandardThrows(w) ==
  /\ wpc[w] = "evalsha"
  /\ faults < MaxStoreFaults
  /\ faults' = faults + 1
  /\ wpc' = [wpc EXCEPT ![w] = "idle"]
  /\ wl' = [wl EXCEPT ![w] = NoLocals]
  /\ UNCHANGED <<backend, now, store, scriptSha, serverScript, calls, ghost>>
  /\ UNCHANGED <<wvars, pvars, tvars>>

\* the server loses its script cache (restart, SCRIPT FLUSH)
ScriptFlush ==
  /\ backend = "standard"
  /\ serverScript
  /\ faults < MaxStoreFaults
  /\ faults' = faults + 1
  /\ serverScript' = FALSE
  /\ UNCHANGED <<backend, now, store, wpc, wl, scriptSha, calls, ghost>>
  /\ UNCHANGED <<wvars, pvars, tvars>>

\* checkBucketUpstash: hgetall, then the client computes refill and consume
checkBucketUpstashRead(w) ==
  /\ wpc[w] = "hgetall"
  /\ \E bucket \in hgetall(store[CurBucket(w)]) :
       wl' = [wl EXCEPT ![w].res = UpstashCompute(bucket, CurConfig(w), wl[w].t)]
  /\ wpc' = [wpc EXCEPT ![w] = "hset"]
  /\ LET b == CurBucket(w)
     IN IF Refills(store[b], CurConfig(w), wl[w].t)
          THEN /\ avail' = [avail EXCEPT ![b] = TokensAt(store[b], CurConfig(w), wl[w].t)]
               /\ granted' = [granted EXCEPT ![b] = 0]
          ELSE UNCHANGED <<avail, granted>>
  /\ UNCHANGED <<backend, now, store, scriptSha, serverScript, calls, faults, admitted>>
  /\ UNCHANGED <<wvars, pvars, tvars>>

\* checkBucketUpstash: hset writes the state computed from what was read,
\* expire refreshes the TTL, and the result goes back to acquireToken
checkBucketUpstashWrite(w) ==
  /\ wpc[w] = "hset"
  /\ LET b == CurBucket(w)
         l == LoopBody(wl[w], Result(wl[w].res))
     IN /\ store' = [store EXCEPT ![b] = wl[w].res.hash]
        /\ granted' = [granted EXCEPT ![b] = IF wl[w].res.allowed THEN @ + 1 ELSE @]
        /\ wl' = [wl EXCEPT ![w] = l]
        /\ wpc' = [wpc EXCEPT ![w] = NextPc(l)]
  /\ UNCHANGED <<backend, now, scriptSha, serverScript, calls, faults, admitted, avail>>
  /\ UNCHANGED <<wvars, pvars, tvars>>

\* checkBucketUpstash: hgetall or hset fails: fail open, nothing written
checkBucketUpstashCatch(w) ==
  /\ wpc[w] \in {"hgetall", "hset"}
  /\ faults < MaxStoreFaults
  /\ faults' = faults + 1
  /\ LET l == LoopBody(wl[w], Result(FailOpen))
     IN /\ wl' = [wl EXCEPT ![w] = l]
        /\ wpc' = [wpc EXCEPT ![w] = NextPc(l)]
  /\ UNCHANGED <<backend, now, store, scriptSha, serverScript, calls, ghost>>
  /\ UNCHANGED <<wvars, pvars, tvars>>

\* checkBucketUpstash: hset succeeds and expire fails: the state is written
\* and the check still fails open
checkBucketUpstashExpireCatch(w) ==
  /\ wpc[w] = "hset"
  /\ faults < MaxStoreFaults
  /\ faults' = faults + 1
  /\ LET b == CurBucket(w)
         l == LoopBody(wl[w], Result(FailOpen))
     IN /\ store' = [store EXCEPT ![b] = wl[w].res.hash]
        /\ wl' = [wl EXCEPT ![w] = l]
        /\ wpc' = [wpc EXCEPT ![w] = NextPc(l)]
  /\ UNCHANGED <<backend, now, scriptSha, serverScript, calls, ghost>>
  /\ UNCHANGED <<wvars, pvars, tvars>>

\* acquireToken returns
acquireTokenReturn(w) ==
  /\ wpc[w] = "ret"
  /\ admitted' = [admitted EXCEPT ![now] = IF wl[w].allowed THEN @ + 1 ELSE @]
  /\ wpc' = [wpc EXCEPT ![w] = "idle"]
  /\ wl' = [wl EXCEPT ![w] = NoLocals]
  /\ UNCHANGED <<backend, now, store, scriptSha, serverScript, calls, faults, avail, granted>>
  /\ UNCHANGED <<wvars, pvars, tvars>>

\* the clock advances, up to the horizon of the specification
Tick(horizon) ==
  /\ now < horizon
  /\ now' = now + 1
  /\ UNCHANGED <<backend, store, wpc, wl, scriptSha, serverScript, calls, faults, ghost>>
  /\ UNCHANGED <<wvars, pvars, tvars>>

(***************************************************************************)
(* Rate limiter: specifications.  SpecStandard is the Lua backend and     *)
(* SpecUpstash the REST backend, each with concurrent workers;             *)
(* SpecSequential is a single caller on either backend.                    *)
(***************************************************************************)
StandardStep(w) ==
  \/ checkBucketStandard(w)
  \/ checkBucketStandardNoScript(w)
  \/ checkBucketStandardThrows(w)

UpstashStep(w) ==
  \/ checkBucketUpstashRead(w)
  \/ checkBucketUpstashWrite(w)
  \/ checkBucketUpstashCatch(w)
  \/ checkBucketUpstashExpireCatch(w)

CallerStep(w) ==
  \/ acquireToken(w)
  \/ checkBucket(w)
  \/ acquireTokenReturn(w)

NextStandard ==
  \/ \E w \in Workers : CallerStep(w) \/ StandardStep(w)
  \/ ScriptFlush
  \/ Tick(MaxRaceTime)

NextUpstash ==
  \/ \E w \in Workers : CallerStep(w) \/ UpstashStep(w)
  \/ Tick(MaxRaceTime)

\* one caller at a time, on either backend, over the longer horizon
NextSequential ==
  \/ CallerStep(1) \/ StandardStep(1) \/ UpstashStep(1)
  \/ ScriptFlush
  \/ Tick(MaxTime)

SpecStandard == LimiterInit({"standard"}) /\ [][NextStandard]_vars
SpecUpstash == LimiterInit({"upstash"}) /\ [][NextUpstash]_vars
SpecSequential == LimiterInit({"standard", "upstash"}) /\ [][NextSequential]_vars

(***************************************************************************)
(* Claims about the rate limiter.                                          *)
(***************************************************************************)
RECURSIVE AdmittedIn(_, _)
\* number of admitted acquires with a timestamp in from..to
AdmittedIn(from, to) ==
  IF from > to \/ from > MaxTime THEN 0 ELSE admitted[from] + AdmittedIn(from + 1, to)

\* C1: for each bucket, the acquires admitted (allowed=true) inside any
\* sliding window of length interval_ms never exceed the bucket's capacity.
C1_SlidingWindow ==
  \A b \in BucketNames : \A s \in Times :
    AdmittedIn(s, s + rateLimiting[b].intervalMs - 1) <= rateLimiting[b].capacity

\* C2: a bucket check is atomic with respect to the checks of other workers:
\* when a bucket holds k tokens and no refill is due, at most k checks
\* consume a token and are allowed.  avail is the number of tokens the last
\* check that created or refilled the bucket found, granted the number of
\* checks allowed from then on.
C2_AtomicCheck ==
  \A b \in BucketNames : granted[b] <= avail[b]

RECURSIVE MaxDenyWait(_)
\* the maximum waitTimeMs over the denying results of a sequence of results
MaxDenyWait(rs) ==
  IF rs = <<>> THEN 0
  ELSE LET h == Head(rs)
       IN IF h.allowed THEN MaxDenyWait(Tail(rs)) ELSE Max(h.waitTimeMs, MaxDenyWait(Tail(rs)))

\* C3: acquireToken returns allowed=true iff all three bucket checks were
\* allowed; denied, waitTimeMs is the maximum wait over the denying buckets;
\* allowed, waitTimeMs is 0.
C3_AcquireResult ==
  \A w \in Workers :
    wpc[w] = "ret" =>
      LET r == Returned(wl[w]) IN
      /\ Len(r.bucketStates) = Len(buckets)
      /\ r.allowed <=> (\A i \in 1..Len(r.bucketStates) : r.bucketStates[i].allowed)
      /\ ~r.allowed => r.waitTimeMs = MaxDenyWait(r.bucketStates)
      /\ r.allowed => r.waitTimeMs = 0

\* C3 witness: an acquire is about to return denied, two buckets having
\* denied with different waits and another bucket having allowed
C3_Witness ==
  \E w \in Workers :
    /\ wpc[w] = "ret"
    /\ ~Returned(wl[w]).allowed
    /\ \E i, j, k \in 1..Len(wl[w].results) :
         /\ ~wl[w].results[i].allowed
         /\ ~wl[w].results[j].allowed
         /\ wl[w].results[i].waitTimeMs < wl[w].results[j].waitTimeMs
         /\ wl[w].results[k].allowed

(***************************************************************************)
(* Ingestion pipeline: actions.  One action per await of the code; an      *)
(* awaited store call either takes effect or throws, an awaited upstream   *)
(* call either answers or fails.                                           *)
(***************************************************************************)
tables == <<pipelineStatus, syncState, navHistory, funds, analytics>>
hist == <<completions, bfFetches, postState>>

\* one more fault is injected
Inject == injected < MaxInjected /\ injected' = injected + 1

\* the scheme the loop of backfillAllSchemes / syncAllSchemes / computeAllAnalytics is at
Cur(c) == runs[c].schemes[runs[c].i]

\* the sync_type the run's per-scheme loop works on
SyncType(c) == IF runs[c].mode = "full" THEN "backfill" ELSE "incremental"

\* an exception reaches the catch block of runFullSync / runIncrementalSync,
\* whose first statement is isRunning = false
RunThrows(c, r, message) ==
  /\ isRunning' = FALSE
  /\ runs' = [runs EXCEPT ![c] = [r EXCEPT !.pc = "markFailed", !.error = message,
                                           !.navHistory = <<>>, !.newNavRecords = <<>>,
                                           !.lastSyncedDate = 0]]

\* the run moves on without an exception
RunGoes(c, r) ==
  /\ runs' = [runs EXCEPT ![c] = r]
  /\ UNCHANGED isRunning

\* runFullSync / runIncrementalSync is called and accepted: what it does
\* up to its first await
Accept(c, mode) ==
  /\ serving
  /\ runs[c].pc = "idle"
  /\ \A d \in Callers : d < c => runs[d].pc # "idle"
  /\ ~isRunning
  /\ isRunning' = TRUE
  /\ runs' = [runs EXCEPT ![c] = [NoRun EXCEPT !.pc = "markRunning", !.mode = mode,
                                                !.startStatus = IF mode = "incremental"
                                                  THEN [s \in Schemes |-> syncState[s]["backfill"].status]
                                                  ELSE <<>>,
                                                !.startUpstream = Recorded(upstream, 0),
                                                !.startInjected = Recorded(injected, 0),
                                                !.pre = IF \A d \in Callers : runs[d].pc = "idle"
                                                          THEN postState ELSE NoPost]]
  /\ postState' = Recorded([NoPost EXCEPT !.mode = "started"], NoPost)
  /\ UNCHANGED <<tables, upstream, injected, completions, bfFetches>>
  /\ UNCHANGED <<serving, lvars>>

\* an accepted call, counted; at most MaxStarted calls are accepted
Accepted(c, mode) ==
  /\ started < MaxStarted
  /\ started' = started + 1
  /\ Accept(c, mode)

\* runFullSync / runIncrementalSync is called by the scheduler and accepted
runSync(c, mode) == Accepted(c, mode) /\ UNCHANGED tvars

runFullSync(c) == runSync(c, "full")
runIncrementalSync(c) == runSync(c, "incremental")

\* runFullSync / runIncrementalSync is called while isRunning: it throws
\* 'Sync is already in progress' before anything else
runSyncRejected(c) ==
  /\ serving
  /\ runs[c].pc = "idle"
  /\ isRunning
  /\ UNCHANGED <<isRunning, runs, tables, upstream, injected, started, hist>>
  /\ UNCHANGED <<serving, lvars, tvars>>

\* await pipelineStatusDao.markRunning(phase)
markRunning(c) ==
  /\ runs[c].pc = "markRunning"
  /\ \/ /\ pipelineStatus' = [pipelineStatus EXCEPT
                              !.status = "running",
                              !.currentPhase = IF runs[c].mode = "full" THEN "discovery" ELSE "incremental",
                              !.lastError = ""]
        /\ RunGoes(c, [runs[c] EXCEPT !.pc = "progress0",
                                       !.phases = Append(@, pipelineStatus'.currentPhase)])
        /\ UNCHANGED injected
     \/ /\ Inject
        /\ RunThrows(c, runs[c], "store")
        /\ UNCHANGED pipelineStatus
  /\ UNCHANGED <<syncState, navHistory, funds, analytics, upstream, started, hist>>
  /\ UNCHANGED <<serving, lvars, tvars>>

\* value stored in the INT column progress_percent for base + (current / total) * span
Percent(base, span, current, total) ==
  base + ((2 * span * current + total) \div (2 * total))

\* the percent the progress callback of the loop the run is in computes
CallbackPercent(r) ==
  IF r.pc = "analytics" THEN Percent(70, 30, r.i, Len(r.schemes))
  ELSE IF r.mode = "full" THEN Percent(10, 60, r.i, Len(r.schemes))
  ELSE Percent(0, 70, r.i, Len(r.schemes))

\* the progress callback calls pipelineStatusDao.updateProgress({ percent, .. })
\* and does not await it: the write is sent on a connection of the pool and
\* the run goes on. r.pending holds the percents of the writes sent since the
\* run last awaited a write of progress_percent; the pool has several
\* connections, so any of them can reach the table after that awaited write.
progressCallback(r) == [r EXCEPT !.pending = @ \cup {CallbackPercent(r)}]

\* the row after an awaited write of progress_percent by run r: the value of
\* the write, or of an un-awaited write that reaches the table after it
PercentWritten(r, percent) ==
  { [pipelineStatus EXCEPT !.progressPercent = p] : p \in {percent} \cup r.pending }

\* an awaited pipelineStatusDao.updateProgress({ percent, .. }); the counts of
\* schemes it also sets are not modelled
updateProgress(c, from, to, percent) ==
  /\ runs[c].pc = from
  /\ \/ /\ pipelineStatus' \in PercentWritten(runs[c], percent)
        /\ RunGoes(c, [to EXCEPT !.pending = {}])
        /\ UNCHANGED injected
     \/ /\ Inject
        /\ RunThrows(c, runs[c], "store")
        /\ UNCHANGED pipelineStatus
  /\ UNCHANGED <<syncState, navHistory, funds, analytics, upstream, started, hist>>
  /\ UNCHANGED <<serving, lvars, tvars>>

\* await pipelineStatusDao.updateProgress({ percent: 0 })
updateProgress0(c) ==
  updateProgress(c, "progress0",
                 [runs[c] EXCEPT !.pc = IF runs[c].mode = "full" THEN "discoverWait" ELSE "getSchemes"], 0)

\* a request is sent to the upstream: it uses the token the operation holds;
\* r.ungated notes a request sent without one
apiClientGetWithRetry(r) ==
  [r EXCEPT !.tokenAcquired = FALSE, !.ungated = TRUE]

apiClientGet(r) ==
  [r EXCEPT !.tokenAcquired = FALSE, !.ungated = @ \/ ~r.tokenAcquired]

\* discoverSchemes -> mfApiClient.getAllSchemes: await waitForToken
discoverWait(c) ==
  /\ runs[c].pc = "discoverWait"
  /\ \/ RunGoes(c, [runs[c] EXCEPT !.pc = "discoverGet", !.tokenAcquired = TRUE]) /\ UNCHANGED injected
     \/ Inject /\ RunThrows(c, runs[c], "Rate limit timeout")
  /\ UNCHANGED <<tables, upstream, started, hist>>
  /\ UNCHANGED <<serving, lvars, tvars>>

\* discoverSchemes -> mfApiClient.getAllSchemes: await apiClient.get('')
discoverGet(c) ==
  /\ runs[c].pc = "discoverGet"
  /\ \/ /\ RunGoes(c, [apiClientGet(runs[c]) EXCEPT !.pc = "progress10", !.schemes = discoverSchemes])
        /\ UNCHANGED injected
     \/ /\ Inject
        /\ RunThrows(c, apiClientGet(runs[c]), "Request failed")
  /\ UNCHANGED <<tables, upstream, started, hist>>
  /\ UNCHANGED <<serving, lvars, tvars>>

\* await pipelineStatusDao.updateProgress({ percent: 10, total })
updateProgress10(c) ==
  updateProgress(c, "progress10", [runs[c] EXCEPT !.pc = "phaseBackfill"], 10)

\* first position of a per-scheme loop over r.schemes, or the position after it
LoopFrom(r, k, body, after) ==
  IF k > Len(r.schemes)
    THEN [r EXCEPT !.i = 0, !.pc = after, !.error = "", !.navHistory = <<>>,
                   !.newNavRecords = <<>>, !.lastSyncedDate = 0]
    ELSE [r EXCEPT !.i = k, !.pc = body, !.error = "", !.navHistory = <<>>,
                   !.newNavRecords = <<>>, !.lastSyncedDate = 0]

\* await pipelineStatusDao.update({ currentPhase: 'backfill' })
phaseBackfill(c) ==
  /\ runs[c].pc = "phaseBackfill"
  /\ \/ /\ pipelineStatus' = [pipelineStatus EXCEPT !.currentPhase = "backfill"]
        /\ RunGoes(c, [LoopFrom(runs[c], 1, "find", "phaseAnalytics") EXCEPT
                         !.startStatus = [s \in Schemes |-> syncState[s]["backfill"].status],
                         !.phases = Append(@, "backfill")])
        /\ UNCHANGED injected
     \/ /\ Inject
        /\ RunThrows(c, runs[c], "store")
        /\ UNCHANGED pipelineStatus
  /\ UNCHANGED <<syncState, navHistory, funds, analytics, upstream, started, hist>>
  /\ UNCHANGED <<serving, lvars, tvars>>

\* the loop moves to the next scheme (or leaves the loop)
NextScheme(r) ==
  LoopFrom(r, r.i + 1, "find",
           IF r.mode = "full" \/ r.totalNewRecords > 0 THEN "phaseAnalytics" ELSE "markCompleted")

\* the run notes an acquire, a request or a write for a scheme
Touch(r, s) == [r EXCEPT !.touched = @ \cup {s}]

\* a skip test that also skips the failed schemes
AfterGetSyncStateSkipsFailed(r, row) ==
  IF r.mode = "full"
    THEN IF row.status \in {"completed", "failed"} THEN NextScheme(r) ELSE [r EXCEPT !.pc = "inProgress"]
    ELSE [r EXCEPT !.pc = "getLatestNavDate"]

\* a skip test that also skips the schemes a killed run left in progress
AfterGetSyncStateSkipsStarted(r, row) ==
  IF r.mode = "full"
    THEN IF row.status \in {"completed", "in_progress"} THEN NextScheme(r) ELSE [r EXCEPT !.pc = "inProgress"]
    ELSE [r EXCEPT !.pc = "getLatestNavDate"]

\* a loop without the skip test
AfterGetSyncStateNoSkip(r, row) ==
  IF r.mode = "full"
    THEN [r EXCEPT !.pc = "inProgress"]
    ELSE [r EXCEPT !.pc = "getLatestNavDate"]

\* after getSyncState has the row: backfillAllSchemes skips a completed
\* scheme and calls backfillScheme otherwise; syncAllSchemes ignores the row
\* and calls syncScheme
AfterGetSyncState(r, row) ==
  IF r.mode = "full"
    THEN IF row.status = "completed" THEN NextScheme(r) ELSE [r EXCEPT !.pc = "inProgress"]
    ELSE [r EXCEPT !.pc = "getLatestNavDate"]

\* getSyncState: await syncStateDao.findBySchemeAndType
findBySchemeAndType(c) ==
  /\ runs[c].pc = "find"
  /\ LET row == syncState[Cur(c)][SyncType(c)]
     IN \/ /\ RunGoes(c, IF row.status # "none" THEN AfterGetSyncState(runs[c], row)
                         ELSE IF runs[c].mode = "full" THEN [runs[c] EXCEPT !.pc = "ensureFund"]
                         ELSE [runs[c] EXCEPT !.pc = "create"])
           /\ UNCHANGED injected
        \/ Inject /\ RunThrows(c, runs[c], "store")
  /\ UNCHANGED <<tables, upstream, started, hist>>
  /\ UNCHANGED <<serving, lvars, tvars>>

\* getSyncState: await fundsDao.upsert(schemeInfo)
ensureFund(c) ==
  /\ runs[c].pc = "ensureFund"
  /\ \/ /\ funds' = [funds EXCEPT ![Cur(c)] = TRUE]
        /\ RunGoes(c, [runs[c] EXCEPT !.pc = "create"])
        /\ UNCHANGED injected
     \/ /\ Inject
        /\ RunThrows(c, runs[c], "store")
        /\ UNCHANGED funds
  /\ UNCHANGED <<pipelineStatus, syncState, navHistory, analytics, upstream, started, hist>>
  /\ UNCHANGED <<serving, lvars, tvars>>

\* getSyncState: await syncStateDao.create(schemeCode, syncType, 'pending')
createSyncState(c) ==
  /\ runs[c].pc = "create"
  /\ \/ /\ syncState[Cur(c)][SyncType(c)].status = "none"
        /\ syncState' = [syncState EXCEPT ![Cur(c)][SyncType(c)] = create("pending")]
        /\ RunGoes(c, Touch([runs[c] EXCEPT !.pc = "refind"], Cur(c)))
        /\ UNCHANGED injected
     \/ /\ syncState[Cur(c)][SyncType(c)].status # "none"
        /\ RunThrows(c, Touch(runs[c], Cur(c)), "Duplicate entry")
        /\ UNCHANGED <<syncState, injected>>
     \/ /\ Inject
        /\ RunThrows(c, Touch(runs[c], Cur(c)), "store")
        /\ UNCHANGED syncState
  /\ UNCHANGED <<pipelineStatus, navHistory, funds, analytics, upstream, started, hist>>
  /\ UNCHANGED <<serving, lvars, tvars>>

\* getSyncState: the second await syncStateDao.findBySchemeAndType
refind(c) ==
  /\ runs[c].pc = "refind"
  /\ \/ /\ RunGoes(c, AfterGetSyncState(runs[c], syncState[Cur(c)][SyncType(c)]))
        /\ UNCHANGED injected
     \/ Inject /\ RunThrows(c, runs[c], "store")
  /\ UNCHANGED <<tables, upstream, started, hist>>
  /\ UNCHANGED <<serving, lvars, tvars>>

\* a catch block that goes on to the next scheme and leaves the row as it is
SchemeThrowsUnmarked(c, r, message) ==
  RunGoes(c, NextScheme(progressCallback(r)))

\* a backfillScheme / syncScheme without the try block: the exception leaves
\* the loop
SchemeThrowsUncaught(c, r, message) ==
  /\ runs' = [runs EXCEPT ![c] = [r EXCEPT !.pc = "markFailed", !.error = message]]
  /\ UNCHANGED isRunning

\* an exception inside the try block of backfillScheme / syncScheme
SchemeThrows(c, r, message) ==
  RunGoes(c, [r EXCEPT !.pc = "failed", !.error = message])

\* backfillScheme / syncScheme: await updateSyncState(.., { status: 'in_progress', errorMessage: null })
inProgress(c) ==
  /\ runs[c].pc = "inProgress"
  /\ LET r == Touch(runs[c], Cur(c))
     IN \/ /\ syncState' = [syncState EXCEPT ![Cur(c)][SyncType(c)] =
                              update(@, [status |-> "in_progress", errorMessage |-> ""])]
           /\ RunGoes(c, [r EXCEPT !.pc = "waitForToken", !.open = @ \cup {Cur(c)}])
           /\ UNCHANGED injected
        \/ /\ Inject
           /\ SchemeThrows(c, r, "store")
           /\ UNCHANGED syncState
  /\ UNCHANGED <<pipelineStatus, navHistory, funds, analytics, upstream, started, hist>>
  /\ UNCHANGED <<serving, lvars, tvars>>

\* mfApiClient.getSchemeData: await waitForToken; false is 'Rate limit timeout'
waitForToken(c) ==
  /\ runs[c].pc = "waitForToken"
  /\ LET r == Touch(runs[c], Cur(c))
     IN \/ RunGoes(c, [r EXCEPT !.pc = "getSchemeData", !.tokenAcquired = TRUE]) /\ UNCHANGED injected
        \/ Inject /\ SchemeThrows(c, r, "Rate limit timeout")
  /\ UNCHANGED <<tables, upstream, started, hist>>
  /\ UNCHANGED <<serving, lvars, tvars>>

\* mfApiClient.getSchemeData: await apiClient.get, then normalizeSchemeData
\* in the caller; HTTP 429 is rethrown as 'Rate limit exceeded ...', any
\* other failure as it is
getSchemeData(c) ==
  /\ runs[c].pc = "getSchemeData"
  /\ bfFetches' = [bfFetches EXCEPT ![Cur(c)] = IF runs[c].mode = "full" THEN @ + 1 ELSE @]
  /\ LET r == apiClientGet(Touch(runs[c], Cur(c)))
         history == normalizeSchemeData(NewestFirst(upstream))
         new == IF r.lastSyncedDate # 0 THEN FilterNew(history, r.lastSyncedDate) ELSE history
     IN \/ /\ RunGoes(c, IF r.mode = "full"
                           THEN [r EXCEPT !.pc = "upsertFund", !.navHistory = history, !.nav = upstream]
                           ELSE [r EXCEPT !.pc = IF Len(new) > 0 THEN "upsertNavHistory" ELSE "getNavCount",
                                          !.newNavRecords = new, !.nav = upstream])
           /\ UNCHANGED injected
        \/ /\ Inject
           /\ \/ SchemeThrows(c, [r EXCEPT !.got429 = TRUE], "Rate limit exceeded")
              \/ SchemeThrows(c, r, "Request failed")
  /\ UNCHANGED <<tables, upstream, started, completions, postState>>
  /\ UNCHANGED <<serving, lvars, tvars>>

\* backfillScheme: await fundService.upsertFund
upsertFund(c) ==
  /\ runs[c].pc = "upsertFund"
  /\ \/ /\ funds' = [funds EXCEPT ![Cur(c)] = TRUE]
        /\ RunGoes(c, [runs[c] EXCEPT !.pc = "upsertNavHistory"])
        /\ UNCHANGED injected
     \/ /\ Inject
        /\ SchemeThrows(c, runs[c], "store")
        /\ UNCHANGED funds
  /\ UNCHANGED <<pipelineStatus, syncState, navHistory, analytics, upstream, started, hist>>
  /\ UNCHANGED <<serving, lvars, tvars>>

\* a plain INSERT into a table without the unique key
bulkInsert(rows, navRecords, nav) ==
  [d \in Dates |-> IF d \in DatesOf(navRecords) THEN Append(rows[d], nav) ELSE rows[d]]

\* navHistoryDao.bulkUpsert: INSERT INTO nav_history (scheme_code, nav_date, nav)
\* VALUES .. ON DUPLICATE KEY UPDATE nav = VALUES(nav), with the unique key
\* uk_scheme_date (scheme_code, nav_date).  The upstream may state another nav
\* for a date each time it publishes: r.nav stands for the navs of the
\* response the run has fetched.
bulkUpsert(rows, navRecords, nav) ==
  [d \in Dates |-> IF d \in DatesOf(navRecords)
                     THEN (IF rows[d] = <<>> THEN <<nav>> ELSE [rows[d] EXCEPT ![1] = nav])
                     ELSE rows[d]]

\* backfillScheme: await fundService.upsertNavHistory(schemeCode, navHistory);
\* syncScheme: await fundService.upsertNavHistory(schemeCode, newNavRecords).
\* navHistoryDao.bulkUpsert returns 0 without a store call for an empty list.
upsertNavHistory(c) ==
  /\ runs[c].pc = "upsertNavHistory"
  /\ LET r == Touch(runs[c], Cur(c))
         records == IF r.mode = "full" THEN r.navHistory ELSE r.newNavRecords
         next == IF r.mode = "full" THEN "completed" ELSE "getNavCount"
     IN \/ /\ navHistory' = [navHistory EXCEPT ![Cur(c)] = bulkUpsert(@, records, r.nav)]
           /\ RunGoes(c, [r EXCEPT !.pc = next,
                                    !.wroteNew = @ \/ (r.mode = "incremental" /\ Len(records) > 0),
                                    !.overwrote = \E d \in DatesOf(records) \cap NavDates(navHistory[Cur(c)]) :
                                                    navHistory[Cur(c)][d][1] # r.nav])
           /\ UNCHANGED injected
        \/ /\ Len(records) > 0
           /\ Inject
           /\ SchemeThrows(c, r, "store")
           /\ UNCHANGED navHistory
  /\ UNCHANGED <<pipelineStatus, syncState, funds, analytics, upstream, started, hist>>
  /\ UNCHANGED <<serving, lvars, tvars>>

\* syncScheme: await fundService.getLatestNavDate(schemeCode)
getLatestNavDate(c) ==
  /\ runs[c].pc = "getLatestNavDate"
  /\ \/ /\ RunGoes(c, [runs[c] EXCEPT !.pc = "inProgress", !.lastSyncedDate = findLatestDate(Cur(c))])
        /\ UNCHANGED injected
     \/ Inject /\ SchemeThrows(c, runs[c], "store")
  /\ UNCHANGED <<tables, upstream, started, hist>>
  /\ UNCHANGED <<serving, lvars, tvars>>

\* syncScheme: await fundService.getNavCount(schemeCode)
getNavCount(c) ==
  /\ runs[c].pc = "getNavCount"
  /\ \/ /\ RunGoes(c, [runs[c] EXCEPT !.pc = "completed", !.navCount = countByScheme(Cur(c))])
        /\ UNCHANGED injected
     \/ Inject /\ SchemeThrows(c, runs[c], "store")
  /\ UNCHANGED <<tables, upstream, started, hist>>
  /\ UNCHANGED <<serving, lvars, tvars>>

\* the first element instead of the last
FirstDate(seq) == IF Len(seq) > 0 THEN seq[1] ELSE 0

\* the last element of an ascending list of dates, NULL for the empty list
LastDate(seq) == IF Len(seq) > 0 THEN seq[Len(seq)] ELSE 0

\* a 'completed' write whose total_records is the count the incremental sync reads
CompletedUpdatesNavCount(r) ==
  [status |-> "completed",
   lastSyncedDate |-> IF r.mode = "full" THEN LastDate(r.navHistory)
                      ELSE IF Len(r.newNavRecords) > 0 THEN LastDate(r.newNavRecords)
                      ELSE r.lastSyncedDate,
   totalRecords |-> r.navCount]

\* the columns the 'completed' write sets
CompletedUpdates(r) ==
  IF r.mode = "full"
    THEN [status |-> "completed", lastSyncedDate |-> LastDate(r.navHistory),
          totalRecords |-> Len(r.navHistory)]
    ELSE [status |-> "completed",
          lastSyncedDate |-> IF Len(r.newNavRecords) > 0 THEN LastDate(r.newNavRecords)
                             ELSE r.lastSyncedDate,
          totalRecords |-> r.navCount]

\* backfillScheme / syncScheme: await updateSyncState(.., { status: 'completed', ... })
completed(c) ==
  /\ runs[c].pc = "completed"
  /\ LET r == Touch(runs[c], Cur(c))
         row == syncState[Cur(c)][SyncType(c)]
     IN \/ /\ syncState' = [syncState EXCEPT ![Cur(c)][SyncType(c)] = update(@, CompletedUpdates(r))]
           /\ completions' = [completions EXCEPT ![Cur(c)] =
                                IF r.mode = "full" /\ row.status \notin {"none", "completed"}
                                  THEN @ + 1 ELSE @]
           /\ pipelineStatus' = [pipelineStatus EXCEPT !.progressPercent = CallbackPercent(r)]
           /\ RunGoes(c, NextScheme(progressCallback([r EXCEPT !.totalNewRecords = @ + Len(r.newNavRecords),
                                                               !.open = @ \ {Cur(c)}])))
           /\ UNCHANGED injected
        \/ /\ Inject
           /\ SchemeThrows(c, r, "store")
           /\ UNCHANGED <<pipelineStatus, syncState, completions>>
  /\ UNCHANGED <<navHistory, funds, analytics, upstream, started, bfFetches, postState>>
  /\ UNCHANGED <<serving, lvars, tvars>>

\* the catch block of backfillScheme / syncScheme:
\* await updateSyncState(.., { status: 'failed', errorMessage: error.message });
\* when this write throws, the exception leaves backfillScheme / syncScheme
failed(c) ==
  /\ runs[c].pc = "failed"
  /\ LET r == Touch(runs[c], Cur(c))
     IN \/ /\ syncState' = [syncState EXCEPT ![Cur(c)][SyncType(c)] =
                              update(@, [status |-> "failed", errorMessage |-> r.error])]
           /\ pipelineStatus' = [pipelineStatus EXCEPT !.progressPercent = CallbackPercent(r)]
           /\ RunGoes(c, NextScheme(progressCallback([r EXCEPT !.open = @ \ {Cur(c)}, !.failed = @ + 1])))
           /\ UNCHANGED injected
        \/ /\ Inject
           /\ RunThrows(c, r, "store")
           /\ UNCHANGED <<pipelineStatus, syncState>>
  /\ UNCHANGED <<navHistory, funds, analytics, upstream, started, hist>>
  /\ UNCHANGED <<serving, lvars, tvars>>

\* await pipelineStatusDao.update({ currentPhase: 'analytics' })
phaseAnalytics(c) ==
  /\ runs[c].pc = "phaseAnalytics"
  /\ \/ /\ pipelineStatus' = [pipelineStatus EXCEPT !.currentPhase = "analytics"]
        /\ RunGoes(c, [runs[c] EXCEPT !.pc = "progress70", !.phases = Append(@, "analytics")])
        /\ UNCHANGED injected
     \/ /\ Inject
        /\ RunThrows(c, runs[c], "store")
        /\ UNCHANGED pipelineStatus
  /\ UNCHANGED <<syncState, navHistory, funds, analytics, upstream, started, hist>>
  /\ UNCHANGED <<serving, lvars, tvars>>

\* await pipelineStatusDao.updateProgress({ percent: 70 }); runFullSync then
\* reads the schemes, runIncrementalSync already has them
updateProgress70(c) ==
  updateProgress(c, "progress70",
                 IF runs[c].mode = "full" THEN [runs[c] EXCEPT !.pc = "getSchemes"]
                 ELSE LoopFrom(runs[c], 1, "analytics", "markCompleted"), 70)

\* await getSchemesForSync()
getSchemesForSync(c) ==
  /\ runs[c].pc = "getSchemes"
  /\ \/ /\ RunGoes(c, IF runs[c].mode = "full"
                        THEN LoopFrom([runs[c] EXCEPT !.schemes = findWithCompletedBackfill],
                                      1, "analytics", "markCompleted")
                        ELSE [runs[c] EXCEPT !.schemes = findWithCompletedBackfill,
                                             !.pc = "progressTotal"])
        /\ UNCHANGED injected
     \/ Inject /\ RunThrows(c, runs[c], "store")
  /\ UNCHANGED <<tables, upstream, started, hist>>
  /\ UNCHANGED <<serving, lvars, tvars>>

\* runIncrementalSync: await pipelineStatusDao.updateProgress({ total })
updateProgressTotal(c) ==
  /\ runs[c].pc = "progressTotal"
  /\ \/ /\ RunGoes(c, LoopFrom(runs[c], 1, "find",
                               IF runs[c].totalNewRecords > 0 THEN "phaseAnalytics" ELSE "markCompleted"))
        /\ UNCHANGED injected
     \/ Inject /\ RunThrows(c, runs[c], "store")
  /\ UNCHANGED <<tables, upstream, started, hist>>
  /\ UNCHANGED <<serving, lvars, tvars>>

\* analytics that add to what is stored
computeAllWindowsAdding(s) == analytics[s] + findLatestDate(s)

\* computeAllWindowsForScheme: the analytics are computed from the NAV rows
\* stored for the scheme and upserted
computeAllWindowsForScheme(s) == findLatestDate(s)

\* computeAllAnalytics, one scheme: await computeAllWindowsForScheme inside
\* try/catch; an exception is logged and the loop goes on
computeAllAnalytics(c) ==
  /\ runs[c].pc = "analytics"
  /\ \/ /\ analytics' = [analytics EXCEPT ![Cur(c)] = computeAllWindowsForScheme(Cur(c))]
        /\ UNCHANGED injected
     \/ /\ Inject
        /\ UNCHANGED analytics
  /\ pipelineStatus' = [pipelineStatus EXCEPT !.progressPercent = CallbackPercent(runs[c])]
  /\ RunGoes(c, LoopFrom(progressCallback(runs[c]), runs[c].i + 1, "analytics", "markCompleted"))
  /\ UNCHANGED <<syncState, navHistory, funds, upstream, started, hist>>
  /\ UNCHANGED <<serving, lvars, tvars>>

\* await pipelineStatusDao.markCompleted(), then isRunning = false and return
markCompleted(c) ==
  /\ runs[c].pc = "markCompleted"
  /\ \/ /\ pipelineStatus' \in { [row EXCEPT !.status = "idle", !.currentPhase = ""] :
                                  row \in PercentWritten(runs[c], 100) }
        /\ isRunning' = FALSE
        /\ runs' = [runs EXCEPT ![c].pc = "returned", ![c].pending = {}]
        /\ UNCHANGED injected
     \/ /\ Inject
        /\ RunThrows(c, runs[c], "store")
        /\ UNCHANGED pipelineStatus
  /\ UNCHANGED <<syncState, navHistory, funds, analytics, upstream, started, hist>>
  /\ UNCHANGED <<serving, lvars, tvars>>

\* the catch block, after isRunning = false: await pipelineStatusDao.markFailed(error.message)
markFailed(c) ==
  /\ runs[c].pc = "markFailed"
  /\ \/ /\ pipelineStatus' = [pipelineStatus EXCEPT !.status = "failed", !.lastError = runs[c].error]
        /\ runs' = [runs EXCEPT ![c].pc = IF runs[c].mode = "full" THEN "getPipelineStatus" ELSE "thrown"]
        /\ UNCHANGED injected
     \/ /\ Inject
        /\ runs' = [runs EXCEPT ![c].pc = "thrown", ![c].error = "store"]
        /\ UNCHANGED pipelineStatus
  /\ UNCHANGED <<isRunning, syncState, navHistory, funds, analytics, upstream, started, hist>>
  /\ UNCHANGED <<serving, lvars, tvars>>

\* the catch block of runFullSync: (await getPipelineStatus()).currentPhase, then throw
getPipelineStatus(c) ==
  /\ runs[c].pc = "getPipelineStatus"
  /\ \/ runs' = [runs EXCEPT ![c].pc = "thrown"] /\ UNCHANGED injected
     \/ Inject /\ runs' = [runs EXCEPT ![c].pc = "thrown", ![c].error = "store"]
  /\ UNCHANGED <<isRunning, tables, upstream, started, hist>>
  /\ UNCHANGED <<serving, lvars, tvars>>

\* the call has returned or thrown: the caller goes on
RunEnds(c) ==
  /\ runs[c].pc \in {"returned", "thrown"}
  /\ runs' = [runs EXCEPT ![c] = NoRun]
  /\ postState' = Recorded(
                  IF runs[c].pc = "returned"
                    THEN [mode |-> runs[c].mode, upstream |-> upstream, injected |-> injected,
                          unchanged |-> /\ runs[c].startUpstream = upstream
                                        /\ runs[c].startInjected = injected,
                          tables |-> Tables]
                    ELSE [NoPost EXCEPT !.mode = "thrown"],
                  NoPost)
  /\ UNCHANGED <<isRunning, tables, upstream, injected, started, completions, bfFetches>>
  /\ UNCHANGED <<serving, lvars, tvars>>

\* the process is killed: its runs and its module state are gone, the
\* tables are as the killed process left them
Kill ==
  /\ serving
  /\ \E c \in Callers : runs[c].pc # "idle"
  /\ Inject
  /\ serving' = FALSE
  /\ isRunning' = FALSE
  /\ runs' = [c \in Callers |-> NoRun]
  /\ postState' = Recorded([NoPost EXCEPT !.mode = "killed"], NoPost)
  /\ UNCHANGED <<tables, upstream, started, completions, bfFetches>>
  /\ UNCHANGED <<lvars, tvars>>

\* the process starts: initialize() tests the connections, loads the limiter
\* script and starts the scheduler; the module state is fresh
\* (let isRunning = false) and no table is written
initialize ==
  /\ ~serving
  /\ serving' = TRUE
  /\ UNCHANGED <<isRunning, runs, tables, upstream, injected, started, hist>>
  /\ UNCHANGED <<lvars, tvars>>

\* the upstream publishes the NAV of one more day
Publish ==
  /\ upstream < MaxDate
  /\ upstream' = upstream + 1
  /\ UNCHANGED <<isRunning, runs, tables, injected, started, hist>>
  /\ UNCHANGED <<serving, lvars, tvars>>

(***************************************************************************)
(* Ingestion pipeline: specification.                                      *)
(***************************************************************************)
RunStep(c) ==
  \/ runFullSync(c) \/ runIncrementalSync(c) \/ runSyncRejected(c)
  \/ markRunning(c) \/ updateProgress0(c) \/ discoverWait(c) \/ discoverGet(c)
  \/ updateProgress10(c) \/ phaseBackfill(c)
  \/ findBySchemeAndType(c) \/ ensureFund(c) \/ createSyncState(c) \/ refind(c)
  \/ inProgress(c) \/ waitForToken(c) \/ getSchemeData(c) \/ upsertFund(c)
  \/ upsertNavHistory(c) \/ getLatestNavDate(c) \/ getNavCount(c)
  \/ completed(c) \/ failed(c)
  \/ phaseAnalytics(c) \/ updateProgress70(c) \/ getSchemesForSync(c)
  \/ updateProgressTotal(c) \/ computeAllAnalytics(c)
  \/ markCompleted(c) \/ markFailed(c) \/ getPipelineStatus(c) \/ RunEnds(c)

NextPipeline ==
  \/ \E c \in Callers : RunStep(c)
  \/ Kill
  \/ initialize
  \/ Publish

SpecPipeline == LimiterInit({"standard"}) /\ [][NextPipeline]_vars

\* the tables as a full sync of the first day's data leaves them when the
\* process is killed after the backfill of all schemes but the last: those
\* schemes have their fund row, their NAV row of that day and a completed
\* backfill row, no analytics are computed and pipeline_status reads running
Interrupted ==
  /\ pipelineStatus = [status |-> "running", currentPhase |-> "backfill",
                       progressPercent |-> Percent(10, 60, NumSchemes - 1, NumSchemes),
                       lastError |-> ""]
  /\ syncState = [s \in Schemes |-> [ty \in SyncTypes |->
                    IF ty = "backfill" /\ s < NumSchemes
                      THEN [status |-> "completed", lastSyncedDate |-> 1, totalRecords |-> 1,
                            errorMessage |-> ""]
                      ELSE NoRow]]
  /\ navHistory = [s \in Schemes |-> [d \in Dates |->
                     IF d = 1 /\ s < NumSchemes THEN <<1>> ELSE <<>>]]
  /\ funds = [s \in Schemes |-> s < NumSchemes]
  /\ analytics = [s \in Schemes |-> 0]

\* the process has started again on the database the killed full sync left
RestartedInit ==
  /\ StoreInit({"standard"})
  /\ serving = TRUE
  /\ isRunning = FALSE
  /\ runs = [c \in Callers |-> NoRun]
  /\ Interrupted
  /\ upstream = 1
  /\ injected = 1
  /\ started = 0
  /\ completions = [s \in Schemes |-> 0]
  /\ bfFetches = [s \in Schemes |-> 0]
  /\ postState = [NoPost EXCEPT !.mode = "restarted"]
  /\ res = NoResponse
  /\ calc = NoCalc
  /\ discovery = NoDiscovery

SpecRestarted == RestartedInit /\ [][NextPipeline]_vars

(***************************************************************************)
(* Recovery: full syncs are triggered again and again (the operator's      *)
(* POST /sync/trigger), at most MaxInjected faults or kills happen, and    *)
(* every await of a run eventually settles.  The accepted runs are not     *)
(* counted here.                                                           *)
(***************************************************************************)
\* POST /sync/trigger?mode=full: runFullSync is called and accepted
runFullSyncAgain(c) == Accept(c, "full") /\ UNCHANGED <<started, tvars>>

\* the awaits of runFullSync
FullSyncStep(c) ==
  \/ markRunning(c) \/ updateProgress0(c) \/ discoverWait(c) \/ discoverGet(c)
  \/ updateProgress10(c) \/ phaseBackfill(c)
  \/ findBySchemeAndType(c) \/ ensureFund(c) \/ createSyncState(c) \/ refind(c)
  \/ inProgress(c) \/ waitForToken(c) \/ getSchemeData(c) \/ upsertFund(c)
  \/ upsertNavHistory(c) \/ completed(c) \/ failed(c)
  \/ phaseAnalytics(c) \/ updateProgress70(c) \/ getSchemesForSync(c)
  \/ computeAllAnalytics(c)
  \/ markCompleted(c) \/ markFailed(c) \/ getPipelineStatus(c) \/ RunEnds(c)

NextRecovery ==
  \/ \E c \in Callers : runFullSyncAgain(c) \/ FullSyncStep(c)
  \/ Kill
  \/ initialize

\* the event loop settles every pending await of a run, the killed process is
\* started again, and full syncs keep being triggered
FairRecovery ==
  /\ \A c \in Callers : WF_vars(FullSyncStep(c))
  /\ WF_vars(initialize)
  /\ WF_vars(\E c \in Callers : runFullSyncAgain(c))

SpecRecovery == LimiterInit({"standard"}) /\ [][NextRecovery]_vars /\ FairRecovery

(***************************************************************************)
(* Admin routes: POST /sync/trigger.                                       *)
(***************************************************************************)
\* the values of req.query.mode: absent, the two modes, another word
QueryModes == {"", "full", "incremental", "weekly"}

\* const mode = req.query.mode || 'full'
ModeOf(query) == IF query = "" THEN "full" ELSE query

\* router.post('/trigger'): 409 when isSyncRunning(); otherwise runFullSync or
\* runIncrementalSync is called without await and 202 is answered, or 400 for
\* another mode.  There is no await in the handler.
trigger(query) ==
  /\ serving
  /\ res = NoResponse
  /\ UNCHANGED <<calc, discovery>>
  /\ LET mode == ModeOf(query)
     IN \/ /\ isRunning
           /\ res' = [status |-> 409, mode |-> mode]
           /\ UNCHANGED <<lvars, pvars>>
        \/ /\ ~isRunning
           /\ mode \in {"full", "incremental"}
           /\ \E c \in Callers : Accepted(c, mode)
           /\ res' = [status |-> 202, mode |-> mode]
        \/ /\ ~isRunning
           /\ mode \notin {"full", "incremental"}
           /\ res' = [status |-> 400, mode |-> mode]
           /\ UNCHANGED <<lvars, pvars>>

\* the response has left
responseSent ==
  /\ res # NoResponse
  /\ res' = NoResponse
  /\ UNCHANGED <<lvars, pvars, calc, discovery>>

NextTrigger ==
  \/ NextPipeline
  \/ \E query \in QueryModes : trigger(query)
  \/ responseSent

\* the restarted process with its admin route
SpecTrigger == RestartedInit /\ [][NextTrigger]_vars

(***************************************************************************)
(* Analytics engine: the pure functions of analyticsService.js over a NAV  *)
(* history, a list of {date, nav} in ascending date order.  Dates are day  *)
(* numbers; a return or drawdown is a fraction [n, d], d = 0 for null.     *)
(***************************************************************************)
\* config.analyticsWindows and config.windowToDays
Windows == {"1Y", "3Y", "5Y", "10Y"}
windowYears(w) == CASE w = "1Y" -> 1 [] w = "3Y" -> 3 [] w = "5Y" -> 5 [] w = "10Y" -> 10
windowToDays(w) == 365 * windowYears(w)

\* the days a probe may be off the target date
Tolerance == 5

Null == [n |-> 0, d |-> 0]
Less(a, b) == a.n * b.d < b.n * a.d

\* the process's time zone: it is on summer time on the days before
\* zone (never, when zone = 0) and on standard time from then on
Summer(zone, day) == day < zone

\* probes that start two days after the target date
checkDateAhead(zone, current, windowDays, offset) ==
  LET day == current - windowDays + offset + 2
  IN IF ~Summer(zone, current) /\ Summer(zone, day) THEN day - 1 ELSE day

\* pastDate.setDate(pastDate.getDate() - windowDays), checkDate.setDate(
\* checkDate.getDate() + offset) and checkDate.toISOString().split('T')[0]:
\* new Date('YYYY-MM-DD') is midnight UTC of the current date; setDate moves
\* the local calendar day and keeps the local wall-clock time; toISOString
\* prints the UTC day.  When the current date is on standard time and the
\* day reached is on summer time, the instant reached is 23:00 UTC of the
\* day before.
checkDate(zone, current, windowDays, offset) ==
  LET day == current - windowDays + offset
  IN IF ~Summer(zone, current) /\ Summer(zone, day) THEN day - 1 ELSE day

\* the date strings of a history
DatesIn(history) == {history[k].date : k \in 1..Len(history)}

\* navByDate.get(date)
navByDate(history, date) ==
  LET k == CHOOSE k \in 1..Len(history) : history[k].date = date IN history[k].nav

\* the probe loop: for (offset = 0; offset <= 5; offset++) .. break: the
\* first offset whose date has a NAV, -1 when there is none
RECURSIVE ProbeFrom(_, _, _, _, _)
ProbeFrom(history, zone, current, windowDays, offset) ==
  IF offset > Tolerance THEN -1
  ELSE IF checkDate(zone, current, windowDays, offset) \in DatesIn(history) THEN offset
  ELSE ProbeFrom(history, zone, current, windowDays, offset + 1)

\* a lookup that falls back on the first date of the history
pastNavDateOrFirst(history, zone, current, windowDays) ==
  LET offset == ProbeFrom(history, zone, current, windowDays, 0)
  IN IF offset < 0 THEN history[1].date ELSE checkDate(zone, current, windowDays, offset)

\* the date whose NAV becomes pastNav, -1 when pastNav stays null
pastNavDate(history, zone, current, windowDays) ==
  LET offset == ProbeFrom(history, zone, current, windowDays, 0)
  IN IF offset < 0 THEN -1 ELSE checkDate(zone, current, windowDays, offset)

\* calculateReturn
calculateReturn(startNav, endNav) ==
  IF startNav <= 0 THEN Null ELSE [n |-> endNav - startNav, d |-> startNav]

\* calculateRollingReturns: one return for each point whose past NAV is found
RECURSIVE RollingFrom(_, _, _, _)
RollingFrom(history, zone, windowDays, i) ==
  IF i > Len(history) THEN <<>>
  ELSE LET past == pastNavDate(history, zone, history[i].date, windowDays)
           returnValue == IF past < 0 THEN Null
                          ELSE calculateReturn(navByDate(history, past), history[i].nav)
       IN (IF returnValue # Null THEN <<returnValue>> ELSE <<>>)
            \o RollingFrom(history, zone, windowDays, i + 1)
calculateRollingReturns(history, zone, windowDays) ==
  RollingFrom(history, zone, windowDays, 1)

\* a sweep that never raises the peak
RECURSIVE SweepFirstPeak(_, _, _, _)
SweepFirstPeak(history, i, peak, maxDrawdown) ==
  IF i > Len(history) THEN maxDrawdown
  ELSE LET drawdown == [n |-> history[i].nav - peak, d |-> peak]
       IN SweepFirstPeak(history, i + 1, peak,
                         IF Less(drawdown, maxDrawdown) THEN drawdown ELSE maxDrawdown)

\* calculateMaxDrawdown: the loop over the history
RECURSIVE Sweep(_, _, _, _)
Sweep(history, i, peak, maxDrawdown) ==
  IF i > Len(history) THEN maxDrawdown
  ELSE LET newPeak == IF history[i].nav > peak THEN history[i].nav ELSE peak
           drawdown == [n |-> history[i].nav - newPeak, d |-> newPeak]
       IN Sweep(history, i + 1, newPeak,
                IF Less(drawdown, maxDrawdown) THEN drawdown ELSE maxDrawdown)

\* calculateMaxDrawdown
calculateMaxDrawdown(history) ==
  IF Len(history) < 2 THEN Null
  ELSE Sweep(history, 1, history[1].nav, [n |-> 0, d |-> 1])

\* if (historyDays < windowDays * 0.9): the dates are whole days and
\* windowDays * 0.9 is exact in floating point for the four windows
TooShort(historyDays, windowDays) == 10 * historyDays < 9 * windowDays

\* computeSchemeAnalytics: null, or the analytics of the window; past lists,
\* for each point, the date whose NAV the rolling returns took as past NAV
computeSchemeAnalytics(history, zone, windowType) ==
  LET windowDays == windowToDays(windowType)
      none == [computed |-> FALSE, reason |-> "", samples |-> 0, maxDrawdown |-> Null,
               past |-> <<>>]
      past == [i \in 1..Len(history) |->
                 pastNavDate(history, zone, history[i].date, windowDays)]
  IN IF Len(history) = 0 THEN [none EXCEPT !.reason = "No NAV history for scheme"]
     ELSE IF TooShort(history[Len(history)].date - history[1].date, windowDays)
       THEN [none EXCEPT !.reason = "Insufficient history for window"]
     ELSE LET rollingReturns == calculateRollingReturns(history, zone, windowDays)
          IN IF Len(rollingReturns) = 0
               THEN [none EXCEPT !.reason = "No rolling returns calculated", !.past = past]
               ELSE [computed |-> TRUE, reason |-> "", samples |-> Len(rollingReturns),
                     maxDrawdown |-> calculateMaxDrawdown(history), past |-> past]

\* the days of the histories: around a target date, and that date plus a
\* window or plus 90% of a window
CalcDays ==
  {0, 1, Tolerance + 1, Tolerance + 2}
    \cup UNION {{(9 * windowToDays(w)) \div 10, (9 * windowToDays(w)) \div 10 + 1,
                 windowToDays(w) + 1, windowToDays(w) + Tolerance + 2} : w \in Windows}

\* the ascending histories of at most n points whose dates are after day
RECURSIVE HistoriesAfter(_, _)
HistoriesAfter(day, n) ==
  IF n = 0 THEN {<<>>}
  ELSE {<<>>} \cup
       UNION {{<<[date |-> d, nav |-> v]>> \o h : h \in HistoriesAfter(d, n - 1)} :
                d \in {x \in CalcDays : x > day}, v \in 1..MaxNav}

\* the time zones: a fixed offset, or summer time that ends after the target dates
Zones == {0, 2 * Tolerance + 2}

AnalyticsInit ==
  /\ StoreInit({"standard"})
  /\ TablesInit
  /\ discovery = NoDiscovery
  /\ calc \in {[NoCalc EXCEPT !.pc = "called", !.zone = z, !.navHistory = h] :
                 z \in Zones, h \in HistoriesAfter(-1, MaxPoints)}

\* computeAllWindowsForScheme: computeSchemeAnalytics for every window, and
\* upsertAnalytics for the windows that are not null
computeAllWindows ==
  /\ calc.pc = "called"
  /\ calc' = [calc EXCEPT !.pc = "returned",
                          !.results = [w \in Windows |->
                                         computeSchemeAnalytics(calc.navHistory, calc.zone, w)]]
  /\ UNCHANGED <<lvars, pvars, res, discovery>>

\* calculateMaxDrawdown is called on the history
maxDrawdownOf ==
  /\ calc.pc = "called"
  /\ calc' = [calc EXCEPT !.pc = "swept", !.maxDrawdown = calculateMaxDrawdown(calc.navHistory)]
  /\ UNCHANGED <<lvars, pvars, res, discovery>>

NextAnalytics == computeAllWindows \/ maxDrawdownOf

SpecAnalytics == AnalyticsInit /\ [][NextAnalytics]_vars

(***************************************************************************)
(* Scheme discovery: discoverSchemes over the catalog mfapi.in answers.    *)
(* A scheme name is the set of the search terms its lower-cased text       *)
(* includes; a scheme code arrives as a JSON number or a JSON string.      *)
(***************************************************************************)
\* config.schemeFilters, one AMC and one category standing for each list
schemeFilters == [amcs |-> {"HDFC"}, categories |-> {"Mid Cap"}, mustInclude |-> {"Direct", "Growth"}]

\* String(scheme.schemeCode): the decimal text, whatever the JSON type was;
\* a text is written as the number it spells
String(schemeCode) == schemeCode.v

\* filterSchemes: the entries whose name includes some AMC, some category and
\* every must-include term, in the order of the catalog
filterSchemes(schemes, filters) ==
  SelectSeq(schemes, LAMBDA scheme :
    /\ \E amc \in filters.amcs : amc \in scheme.schemeName
    /\ \E cat \in filters.categories : cat \in scheme.schemeName
    /\ \A term \in filters.mustInclude : term \in scheme.schemeName)

\* categorizeScheme: the first AMC of the filter the name includes, and the category
categorizeScheme(scheme) ==
  [amc |-> IF \E amc \in schemeFilters.amcs : amc \in scheme.schemeName
           THEN CHOOSE amc \in schemeFilters.amcs : amc \in scheme.schemeName
           ELSE "Unknown",
   category |-> IF "Mid Cap" \in scheme.schemeName THEN "Mid Cap Direct Growth" ELSE "Unknown"]

\* discoverSchemes: const categorizedSchemes = matchingSchemes.map(..)
categorizedSchemes(allSchemes) ==
  LET matchingSchemes == filterSchemes(allSchemes, schemeFilters)
  IN [i \in 1..Len(matchingSchemes) |->
        [schemeCode |-> String(matchingSchemes[i].schemeCode),
         schemeName |-> matchingSchemes[i].schemeName,
         amc |-> categorizeScheme(matchingSchemes[i]).amc,
         category |-> categorizeScheme(matchingSchemes[i]).category]]

\* the scheme codes of the catalog, as JSON numbers or strings
CatalogCodes == [type : {"number", "string"}, v : 1..MaxCodes]

\* the names of the catalog: a tracked plan, a dividend plan, a large-cap plan
CatalogNames == {{"HDFC", "Mid Cap", "Direct", "Growth"},
                 {"HDFC", "Mid Cap", "Direct"},
                 {"HDFC", "Direct", "Growth"}}

\* the catalogs of up to MaxCatalog entries
Catalogs ==
  UNION {[1..n -> [schemeCode : CatalogCodes, schemeName : CatalogNames]] : n \in 0..MaxCatalog}

DiscoveryInit ==
  /\ StoreInit({"standard"})
  /\ TablesInit
  /\ calc = NoCalc
  /\ discovery \in {[NoDiscovery EXCEPT !.pc = "called", !.allSchemes = all] : all \in Catalogs}

\* discoverSchemes returns: getAllSchemes, filterSchemes, map
discover ==
  /\ discovery.pc = "called"
  /\ discovery' = [discovery EXCEPT !.pc = "returned",
                                    !.result = categorizedSchemes(discovery.allSchemes)]
  /\ UNCHANGED <<lvars, pvars, res, calc>>

\* discoverSchemes throws: getAllSchemes got no token or no answer
discoveryFails ==
  /\ discovery.pc = "called"
  /\ discovery' = [discovery EXCEPT !.pc = "thrown"]
  /\ UNCHANGED <<lvars, pvars, res, calc>>

NextDiscovery == discover \/ discoveryFails

SpecDiscovery == DiscoveryInit /\ [][NextDiscovery]_vars

(***************************************************************************)
(* Claims about the ingestion pipeline.                                    *)
(***************************************************************************)
\* a call of runFullSync / runIncrementalSync has started and has neither
\* returned nor thrown
InFlight(c) == runs[c].pc \notin {"idle", "returned", "thrown"}

\* C4: at most one pipeline run (runFullSync or runIncrementalSync) is in
\* flight in a process at any time: a call made while another run has started
\* and not yet returned or thrown is rejected.
C4_SingleRunInFlight ==
  Cardinality({c \in Callers : InFlight(c)}) <= 1

\* the schemes a run of backfillAllSchemes found completed when it started
CompletedAtStart(c) == {s \in Schemes : runs[c].startStatus[s] = "completed"}

\* C5: a backfill run processes exactly the schemes whose backfill row is not
\* 'completed': for a completed scheme it issues no limiter acquire, no
\* upstream request and no write to the scheme's sync-state or NAV rows, and
\* when its loop is over it has processed every other scheme of the list.
C5_ResumeSkipsCompleted ==
  \A c \in Callers :
    (runs[c].mode = "full" /\ runs[c].startStatus # <<>>) =>
      /\ runs[c].touched \cap CompletedAtStart(c) = {}
      /\ runs[c].pc = "phaseAnalytics" =>
           runs[c].touched = DatesOf(runs[c].schemes) \ CompletedAtStart(c)

\* C5 witness: a backfill that started on three schemes in states
\* [completed, failed, pending] has finished its loop and processed two
C5_Witness ==
  \E c \in Callers :
    /\ \A d \in Callers \ {c} : runs[d].pc = "idle"
    /\ runs[c].mode = "full"
    /\ runs[c].pc = "phaseAnalytics"
    /\ runs[c].startStatus = <<"completed", "failed", "pending">>
    /\ Cardinality(runs[c].touched) = 2

\* C6: across full runs, kills and restarts, each scheme's backfill row
\* enters 'completed' at most once, and once it is 'completed' no later step
\* changes the row or requests the scheme's history for a backfill.
C6_CompletedOnce ==
  /\ [](\A s \in Schemes : completions[s] <= 1)
  /\ [][\A s \in Schemes :
          syncState[s]["backfill"].status = "completed" =>
            /\ syncState'[s]["backfill"] = syncState[s]["backfill"]
            /\ bfFetches'[s] = bfFetches[s]]_vars

\* C6 witness: a second full run has gone through its loop over a scheme
\* that an earlier run completed, which was fetched once
C6_Witness ==
  \E c \in Callers : \E s \in Schemes :
    /\ started = 2
    /\ \A d \in Callers \ {c} : runs[d].pc = "idle"
    /\ runs[c].mode = "full"
    /\ runs[c].pc = "phaseAnalytics"
    /\ runs[c].startStatus[s] = "completed"
    /\ completions[s] = 1
    /\ bfFetches[s] = 1

\* C7: when a sync has finished, every completed sync-state row of either
\* sync_type has last_synced_date equal to the maximum nav_date stored for
\* the scheme (stated for the runs in which nothing failed).
C7_CompletedRowIsMax ==
  (/\ injected = 0
   /\ \E c \in Callers : runs[c].pc = "returned"
   /\ \A c \in Callers : ~InFlight(c)) =>
    \A s \in Schemes : \A ty \in SyncTypes :
      syncState[s][ty].status = "completed" =>
        syncState[s][ty].lastSyncedDate = findLatestDate(s)

\* C7 as amended: the write that makes a row 'completed' sets last_synced_date
\* to the maximum nav_date stored for the scheme at that moment, and a
\* completed incremental row keeps that equality; a completed backfill row
\* keeps the date of its backfill.
C7_CompletedWriteIsMax ==
  /\ [](\A s \in Schemes :
          syncState[s]["incremental"].status = "completed" =>
            syncState[s]["incremental"].lastSyncedDate = findLatestDate(s))
  /\ [][\A s \in Schemes : \A ty \in SyncTypes :
          (syncState'[s][ty].status = "completed" /\ syncState'[s][ty] # syncState[s][ty]) =>
            syncState'[s][ty].lastSyncedDate = SetMax(NavDates(navHistory'[s]))]_vars

\* C7 witness: a scheme whose backfill completed on an earlier day and
\* whose incremental sync completed on the latest stored day
C7_Witness ==
  \E s \in Schemes :
    /\ syncState[s]["backfill"].status = "completed"
    /\ syncState[s]["incremental"].status = "completed"
    /\ syncState[s]["backfill"].lastSyncedDate < syncState[s]["incremental"].lastSyncedDate
    /\ syncState[s]["incremental"].lastSyncedDate = findLatestDate(s)

\* backfillScheme ends in this step of caller c: its last write was attempted
\* and the run is neither at that write nor killed
BackfillSchemeEnds(c, lastWrite) ==
  /\ runs[c].mode = "full"
  /\ runs[c].pc = lastWrite
  /\ runs'[c].pc \notin {"completed", "failed", "idle"}

\* backfillScheme succeeded: the row is 'completed' with the greatest
\* fetched date and the number of fetched points
SuccessRecorded(c) ==
  BackfillSchemeEnds(c, "completed") =>
    LET row == syncState'[Cur(c)]["backfill"]
    IN /\ row.status = "completed"
       /\ row.lastSyncedDate = SetMax(DatesOf(runs[c].navHistory))
       /\ row.totalRecords = Len(runs[c].navHistory)

\* C8: when backfillScheme succeeds the backfill row ends 'completed' with
\* last_synced_date the greatest fetched nav_date and total_records the
\* number of fetched points; when any step of it throws, the row ends
\* 'failed' with error_message the exception's message.
C8_BackfillSchemeOutcome ==
  [][\A c \in Callers :
       /\ SuccessRecorded(c)
       /\ BackfillSchemeEnds(c, "failed") =>
            /\ syncState'[Cur(c)]["backfill"].status = "failed"
            /\ syncState'[Cur(c)]["backfill"].errorMessage = runs[c].error]_vars

\* C8 as amended: the success half as claimed; when a step throws and the
\* store accepts the 'failed' write of the catch block, the row ends 'failed'
\* with the exception's message; when that write throws as well, the row is
\* left as it was and the exception leaves backfillScheme.
C8_BackfillSchemeOutcomeAmended ==
  [][\A c \in Callers :
       /\ SuccessRecorded(c)
       /\ BackfillSchemeEnds(c, "failed") =>
            IF runs'[c].pc = "markFailed"
              THEN syncState'[Cur(c)]["backfill"] = syncState[Cur(c)]["backfill"]
              ELSE /\ syncState'[Cur(c)]["backfill"].status = "failed"
                   /\ syncState'[Cur(c)]["backfill"].errorMessage = runs[c].error]_vars

\* C8 witness: a backfill in flight has left one scheme 'completed' with
\* both fetched points counted and another 'failed' with the upstream's error
C8_Witness ==
  \E c \in Callers : \E s, t \in Schemes :
    /\ runs[c].mode = "full"
    /\ runs[c].pc = "find"
    /\ syncState[s]["backfill"].status = "completed"
    /\ syncState[s]["backfill"].lastSyncedDate = MaxDate
    /\ syncState[s]["backfill"].totalRecords = MaxDate
    /\ syncState[t]["backfill"].status = "failed"
    /\ syncState[t]["backfill"].errorMessage = "Request failed"

\* C9: every sync-state row is created 'pending', and every transition into
\* 'completed' or 'failed' is taken from 'in_progress', also when a store or
\* upstream call fails.
C9_Lifecycle ==
  [][\A s \in Schemes : \A ty \in SyncTypes :
       LET old == syncState[s][ty].status
           new == syncState'[s][ty].status
       IN /\ (old = "none" /\ new # "none") => new = "pending"
          /\ (new \in {"completed", "failed"} /\ new # old) => old = "in_progress"]_vars

\* C10: an upstream HTTP 429 on a per-scheme history fetch makes the run end
\* as a pipeline failure: pipeline_status.status is 'failed' and last_error
\* records the rate-limit error (stated for the runs in which the 429 is
\* the only failure).
C10_RateLimitBreachIsFatal ==
  \A c \in Callers :
    (runs[c].pc \in {"returned", "thrown"} /\ runs[c].got429 /\ injected = 1) =>
      /\ pipelineStatus.status = "failed"
      /\ pipelineStatus.lastError = "Rate limit exceeded"

\* C11: when the process starts and the pipeline-status row still reads
\* 'running' from a run that was killed, the start resets the row to 'idle'
\* before any trigger is handled: no start ends with the row reading 'running'.
C11_ResetOnStart ==
  [][(~serving /\ serving') => pipelineStatus'.status # "running"]_vars

\* C12: when no store or upstream call has failed and no other call has been
\* made since, a run that has returned
\* successfully and whose issued writes have all been applied leaves the
\* pipeline-status row at status 'idle', progress_percent 100 and no
\* current_phase, and a run that has thrown leaves it at status 'failed' with
\* last_error equal to the exception's message.
C12_RunOutcomeRecorded ==
  (injected = 0 /\ Cardinality({c \in Callers : runs[c].pc # "idle"}) = 1) =>
    \A c \in Callers :
      /\ runs[c].pc = "returned" =>
           /\ pipelineStatus.status = "idle"
           /\ pipelineStatus.progressPercent = 100
           /\ pipelineStatus.currentPhase = ""
      /\ runs[c].pc = "thrown" =>
           /\ pipelineStatus.status = "failed"
           /\ pipelineStatus.lastError = runs[c].error

\* the steps of a run that are the work of a phase
PhaseWork(r) ==
  IF r.pc \in {"discoverWait", "discoverGet"} THEN "discovery"
  ELSE IF r.pc \in {"find", "ensureFund", "create", "refind", "inProgress", "waitForToken",
                    "getSchemeData", "upsertFund", "upsertNavHistory", "getLatestNavDate",
                    "getNavCount", "completed", "failed"}
         THEN (IF r.mode = "full" THEN "backfill" ELSE "incremental")
  ELSE IF r.pc = "analytics" THEN "analytics"
  ELSE ""

\* C13: while one run is in flight, the values it has written to current_phase
\* are a prefix of discovery, backfill, analytics (full run) or of incremental,
\* analytics (incremental run), and at every step of a phase's work
\* current_phase reads that phase; an incremental run that has returned has
\* entered the analytics phase if and only if it wrote at least one new NAV
\* record.
C13_Phases ==
  \A c \in Callers :
    (runs[c].pc # "idle" /\ \A d \in Callers \ {c} : runs[d].pc = "idle") =>
      LET r == runs[c]
          order == IF r.mode = "full" THEN <<"discovery", "backfill", "analytics">>
                   ELSE <<"incremental", "analytics">>
      IN /\ Len(r.phases) <= Len(order)
         /\ r.phases = SubSeq(order, 1, Len(r.phases))
         /\ PhaseWork(r) # "" =>
              /\ pipelineStatus.currentPhase = PhaseWork(r)
              /\ r.phases # <<>>
              /\ r.phases[Len(r.phases)] = PhaseWork(r)
         /\ (r.pc = "returned" /\ r.mode = "incremental") =>
              ((Len(r.phases) = 2) <=> r.wroteNew)

\* C14: no request is sent to the upstream (scheme list or scheme history)
\* without a token that waitForToken returned for it, and when waitForToken
\* returns false the operation throws 'Rate limit timeout ...' without sending
\* the request.
C14_RequestsGated ==
  [][\A c \in Callers :
       LET r == runs[c]
           q == runs'[c]
       IN /\ ~q.ungated
          /\ q.tokenAcquired => q.pc \in {"discoverGet", "getSchemeData"}
          /\ (r.pc \in {"discoverWait", "waitForToken"} /\ q.pc \notin {r.pc, "idle"}
                /\ ~q.tokenAcquired) =>
               /\ q.error = "Rate limit timeout"
               /\ q.pc \in {"failed", "markFailed"}]_vars

\* a run has fetched the scheme list and the history of its first scheme, and
\* waitForToken has returned false for its second scheme
C14_Witness ==
  \E c \in Callers :
    /\ runs[c].mode = "full"
    /\ runs[c].pc = "failed"
    /\ runs[c].i = 2
    /\ runs[c].error = "Rate limit timeout"
    /\ bfFetches[runs[c].schemes[1]] = 1

(***************************************************************************)
(* waitForToken: the loop around acquireToken.  The clock is in            *)
(* milliseconds; an acquireToken call is its outcome and its duration; a   *)
(* timer fires when it is due.                                             *)
(***************************************************************************)
JitterMs == 50

\* deadlines a caller supplies, waits a denied acquire returns, durations of an acquire
Deadlines == {0, JitterMs, MaxWaitMs \div 2, MaxWaitMs}
WaitTimes == {1, JitterMs, MaxWaitMs}
AcquireDurations == {0, MaxAcquireMs}

\* waitForToken(requestId, maxWaitMs) is called at some time:
\* const startTime = Date.now()
waitForTokenCall ==
  /\ waiter.pc = "idle"
  /\ \E maxWaitMs \in Deadlines, t \in AcquireDurations :
       /\ clock' = clock + t
       /\ waiter' = [NoWait EXCEPT !.pc = "while", !.maxWaitMs = maxWaitMs, !.startTime = clock + t]
  /\ UNCHANGED <<bvars, pvars, tvars>>

\* while (Date.now() - startTime < maxWaitMs): attempts++ and acquireToken is
\* called, or the loop is left and false is returned
waitForTokenWhile ==
  /\ waiter.pc = "while"
  /\ waiter' = IF clock - waiter.startTime < waiter.maxWaitMs
                 THEN [waiter EXCEPT !.pc = "acquireToken", !.attempts = @ + 1]
                 ELSE [waiter EXCEPT !.pc = "false"]
  /\ UNCHANGED <<clock, bvars, pvars, tvars>>

\* Math.min(result.waitTimeMs + 50, maxWaitMs - (Date.now() - startTime))
WaitTime(w, elapsed) == Min(w.result.waitTimeMs + JitterMs, w.maxWaitMs - elapsed)

\* after `await acquireToken` has returned result at time t
AfterAcquireToken(w, result, t) ==
  LET v == [w EXCEPT !.result = result, !.acquired = @ \/ result.allowed]
      waitTime == WaitTime(v, t - w.startTime)
  IN IF result.allowed THEN [v EXCEPT !.pc = "true"]
     ELSE IF waitTime <= 0 THEN [v EXCEPT !.pc = "false", !.waitTime = waitTime]
     ELSE [v EXCEPT !.pc = "setTimeout", !.waitTime = waitTime]

\* const result = await acquireToken(requestId): allowed, or denied with the
\* longest wait of the denying buckets
waitForTokenAcquire ==
  /\ waiter.pc = "acquireToken"
  /\ \E d \in AcquireDurations :
       /\ clock' = clock + d
       /\ \E result \in {[allowed |-> TRUE, waitTimeMs |-> 0]}
                          \cup {[allowed |-> FALSE, waitTimeMs |-> ms] : ms \in WaitTimes} :
            waiter' = AfterAcquireToken([waiter EXCEPT !.acquireMs = d], result, clock + d)
  /\ UNCHANGED <<bvars, pvars, tvars>>

\* acquireToken throws (checkBucketStandard rethrows a store error): the
\* exception leaves waitForToken, which has no try
waitForTokenThrows ==
  /\ waiter.pc = "acquireToken"
  /\ \E d \in AcquireDurations :
       /\ clock' = clock + d
       /\ waiter' = [waiter EXCEPT !.pc = "thrown", !.acquireMs = d]
  /\ UNCHANGED <<bvars, pvars, tvars>>

\* await new Promise(resolve => setTimeout(resolve, waitTime))
waitForTokenSleep ==
  /\ waiter.pc = "setTimeout"
  /\ clock' = clock + waiter.waitTime
  /\ waiter' = [waiter EXCEPT !.pc = "while"]
  /\ UNCHANGED <<bvars, pvars, tvars>>

\* the caller has its answer and goes on
waitForTokenEnds ==
  /\ waiter.pc \in {"true", "false", "thrown"}
  /\ clock' = 0
  /\ waiter' = NoWait
  /\ UNCHANGED <<bvars, pvars, tvars>>

NextWait ==
  \/ waitForTokenCall
  \/ waitForTokenWhile
  \/ waitForTokenAcquire
  \/ waitForTokenThrows
  \/ waitForTokenSleep
  \/ waitForTokenEnds

SpecWait == LimiterInit({"standard"}) /\ [][NextWait]_vars

\* what holds of a waitForToken call whether or not an acquire throws
WaitForTokenReturns ==
  LET remaining == waiter.maxWaitMs - (clock - waiter.startTime)
  IN /\ waiter.acquired <=> waiter.pc = "true"
     /\ waiter.pc = "false" =>
          clock <= waiter.startTime + waiter.maxWaitMs + waiter.acquireMs
     /\ waiter.pc = "setTimeout" =>
          /\ waiter.waitTime <= waiter.result.waitTimeMs + JitterMs
          /\ waiter.waitTime <= remaining
          /\ waiter.waitTime \in {waiter.result.waitTimeMs + JitterMs, remaining}
     /\ waiter.attempts >= 1 => (waiter.attempts - 1) * JitterMs <= waiter.maxWaitMs

\* C15: waitForToken ends by returning true or false; it returns true exactly
\* when one of its acquire calls returned allowed; it returns false no later
\* than the deadline plus the duration of one acquire; each sleep is the
\* returned wait plus 50 ms or the time remaining to the deadline, whichever
\* is shorter; and the attempts are bounded by the deadline (every attempt
\* after the first is at least 50 ms later than the one before).
C15_WaitForToken ==
  /\ waiter.pc # "thrown"
  /\ WaitForTokenReturns

\* C16: on fresh buckets and without store failures the first two immediate
\* acquires are allowed, and a third acquire made at any instant of the same
\* second (the interval of the per_second bucket) is denied with a wait of one
\* refill period of that bucket (500 ms: intervalMs / refillRate).
C16_ThirdAcquireDenied ==
  \A w \in Workers :
    (wpc[w] = "ret" /\ faults = 0 /\ now < rateLimiting.per_second.intervalMs) =>
      /\ (calls <= 2 /\ now = 0) => wl[w].allowed
      /\ (calls = 3 /\ admitted[0] = 2) =>
           /\ ~wl[w].allowed
           /\ wl[w].maxWaitTime = WaitTimeMs(1, rateLimiting.per_second)

\* C17: a bucket check that fails with NOSCRIPT changes nothing in the store,
\* reloads the script and is retried; the retried check applies the normal
\* refill and consume to the stored bucket; and a check is retried at most
\* once: a second consecutive NOSCRIPT is not retried again.
C17_NoScriptRetriedOnce ==
  [][\A w \in Workers :
       /\ (wpc[w] = "evalsha" /\ wpc'[w] = "check" /\ wl'[w].retries > wl[w].retries) =>
            /\ store' = store
            /\ ~scriptSha'
       /\ (wpc[w] = "evalsha" /\ wl[w].retries > 0 /\ wl'[w].retries = 0 /\ wpc'[w] # "idle") =>
            store'[CurBucket(w)] = TOKEN_BUCKET_LUA(store[CurBucket(w)], CurConfig(w), 1, wl[w].t).hash
       /\ wl'[w].retries <= 1]_vars

\* C18: when the store fails while a caller's acquire is checking a bucket, on
\* either backend, that check yields allowed = true with wait 0 and the
\* acquire goes on to its next bucket or to its return: it does not raise.
C18_FailOpen ==
  [][\A w \in Workers :
       (faults' > faults /\ wpc[w] \in {"evalsha", "hgetall", "hset"} /\ wpc'[w] # wpc[w]) =>
         /\ wpc'[w] \in {"check", "ret"}
         /\ Len(wl'[w].results) = Len(wl[w].results) + 1
         /\ wl'[w].results[Len(wl'[w].results)] = Result(FailOpen)]_vars

\* C19: the NAV table never holds more than one row for a scheme and a date,
\* and a write of a pair that is already stored overwrites the nav of its row
\* and adds no row.
C19_OneNavPerDate ==
  [][\A s \in Schemes : \A d \in Dates :
       /\ Len(navHistory'[s][d]) <= 1
       /\ (navHistory[s][d] # <<>> /\ \E c \in Callers :
              /\ runs[c].pc = "upsertNavHistory" /\ runs'[c].pc \in {"completed", "getNavCount"}
              /\ Cur(c) = s
              /\ d \in DatesOf(IF runs[c].mode = "full" THEN runs[c].navHistory
                               ELSE runs[c].newNavRecords)) =>
            \E c \in Callers : runs[c].pc = "upsertNavHistory" /\ navHistory'[s][d] = <<runs[c].nav>>]_vars

\* a run has written NAV records of which one was stored already, with
\* another nav than the stored one
C19_Witness ==
  \E c \in Callers :
    /\ \A d \in Callers \ {c} : runs[d].pc = "idle"
    /\ runs[c].overwrote
    /\ runs[c].pc = "completed"
    /\ \A d \in DatesOf(runs[c].navHistory) : navHistory[Cur(c)][d] = <<runs[c].nav>>
    /\ bfFetches[Cur(c)] = 2

\* a run has returned that started right after a run of the same mode had
\* returned, with no other run about; since that first run started the
\* upstream data has not changed and nothing has failed
SecondRun(c) ==
  /\ runs[c].pc = "returned"
  /\ \A d \in Callers \ {c} : runs[d].pc = "idle"
  /\ postState.mode = "started"
  /\ runs[c].pre.mode = runs[c].mode
  /\ runs[c].pre.unchanged
  /\ runs[c].pre.upstream = upstream
  /\ runs[c].pre.injected = injected

\* C20: when the same sync has run twice in succession against unchanged
\* upstream data, the NAV rows, the fund rows, the analytics and the status,
\* last_synced_date and total_records of the sync-state rows after the second
\* run are those after the first.
C20_Idempotent ==
  \A c \in Callers : SecondRun(c) => Tables = runs[c].pre.tables

\* a second incremental sync in succession has returned: the first one stored
\* the NAV of a day published after the backfill, the second one fetched every
\* scheme again and found nothing new
C20_Witness ==
  \E c \in Callers :
    /\ SecondRun(c)
    /\ runs[c].mode = "incremental"
    /\ ~runs[c].wroteNew
    /\ runs[c].touched = Schemes \ {NumSchemes}
    /\ \A s \in Schemes \ {NumSchemes} :
         /\ navHistory[s][2] = <<2>>
         /\ analytics[s] = 2
         /\ syncState[s]["incremental"].status = "completed"
         /\ syncState[s]["incremental"].lastSyncedDate = 2
         /\ syncState[s]["incremental"].totalRecords = 2

\* C21: an incremental sync of a scheme changes no NAV row of a date up to
\* the maximum nav_date it read when it began, whatever navs the upstream
\* states for those dates, writes rows of later dates only, in its upsert
\* step only, and its write of 'completed' sets last_synced_date to the
\* maximum nav_date then stored.
C21_IncrementalAppendsOnly ==
  [][\A c \in Callers : (runs[c].mode = "incremental" /\ runs[c].pc # runs'[c].pc) =>
       LET s == Cur(c)
           r == runs[c]
       IN /\ r.pc # "upsertNavHistory" => navHistory' = navHistory
          /\ r.pc = "upsertNavHistory" =>
               /\ \A d \in DatesOf(r.newNavRecords) : d > r.lastSyncedDate
               /\ \A t \in Schemes : \A d \in Dates :
                    navHistory'[t][d] # navHistory[t][d] =>
                      t = s /\ d > r.lastSyncedDate /\ d \in DatesOf(r.newNavRecords)
          /\ (r.pc = "completed" /\ runs'[c].pc \notin {"failed", "idle"}) =>
               /\ syncState'[s]["incremental"].status = "completed"
               /\ syncState'[s]["incremental"].lastSyncedDate = SetMax(NavDates(navHistory'[s]))]_vars

\* an incremental sync has completed a scheme for which it stored the NAV of
\* a new day from a response that states another nav for the stored day, and
\* the stored day's row is as the backfill wrote it
C21_Witness ==
  \E c \in Callers : \E s \in Schemes :
    /\ injected = 0
    /\ \A d \in Callers \ {c} : runs[d].pc = "idle"
    /\ runs[c].mode = "incremental"
    /\ runs[c].wroteNew
    /\ s \in runs[c].touched
    /\ navHistory[s][1] = <<1>>
    /\ navHistory[s][2] = <<2>>
    /\ syncState[s]["incremental"].status = "completed"
    /\ syncState[s]["incremental"].lastSyncedDate = 2

\* C22: an incremental run lists, fetches and writes only schemes whose
\* backfill row was 'completed' when the run started, and no scheme has an
\* incremental sync-state row unless its backfill row is 'completed'.
C22_IncrementalOnlyBackfilled ==
  /\ \A c \in Callers : runs[c].mode = "incremental" =>
       /\ DatesOf(runs[c].schemes) \subseteq CompletedAtStart(c)
       /\ runs[c].touched \subseteq CompletedAtStart(c)
  /\ \A s \in Schemes : syncState[s]["incremental"].status # "none" =>
       syncState[s]["backfill"].status = "completed"

\* an incremental run that started on schemes of which one had a fund row
\* and a failed backfill has gone through the others and left that one
\* without an incremental row
C22_Witness ==
  \E c \in Callers : \E s \in Schemes :
    /\ runs[c].mode = "incremental"
    /\ runs[c].pc = "returned"
    /\ runs[c].startStatus[s] = "failed"
    /\ funds[s]
    /\ runs[c].touched = Schemes \ {s}
    /\ syncState[s]["incremental"].status = "none"
    /\ \A t \in Schemes \ {s} : syncState[t]["incremental"].status = "completed"

\* C23: POST /sync/trigger answers 409 and starts nothing when a run is in
\* flight; when none is, it answers 400 and starts nothing for a mode that is
\* neither 'full' nor 'incremental', and otherwise answers 202 having started
\* exactly one run of the requested mode, which has not finished.
C23_Trigger ==
  [][(res = NoResponse /\ res' # NoResponse) =>
       LET inFlight == \E c \in Callers : InFlight(c)
           new == {c \in Callers : runs'[c] # runs[c]}
       IN /\ inFlight => res'.status = 409 /\ runs' = runs
          /\ (~inFlight /\ res'.mode \notin {"full", "incremental"}) =>
               res'.status = 400 /\ runs' = runs
          /\ (~inFlight /\ res'.mode \in {"full", "incremental"}) =>
               /\ res'.status = 202
               /\ Cardinality(new) = 1
               /\ \A c \in new : /\ runs[c].pc = "idle"
                                  /\ runs'[c].pc = "markRunning"
                                  /\ runs'[c].mode = res'.mode]_vars

\* C24: a window whose days are W is not computed, and so no analytics row
\* is written for it, for a history of one point and for a history whose
\* span last date - first date is at most 0.9 x W, exactly 0.9 x W included.
C24_InsufficientHistory ==
  calc.pc = "returned" =>
    \A w \in Windows :
      LET h == calc.navHistory
      IN (Len(h) >= 1 /\ 10 * (h[Len(h)].date - h[1].date) <= 9 * windowToDays(w)) =>
           ~calc.results[w].computed

\* a history whose span is exactly 0.9 x 3650 days has gone through the
\* engine: the 10Y window passed the threshold test and found no sample
C24_Witness ==
  /\ calc.pc = "returned"
  /\ Len(calc.navHistory) >= 2
  /\ 10 * (calc.navHistory[Len(calc.navHistory)].date - calc.navHistory[1].date)
       = 9 * windowToDays("10Y")
  /\ calc.results["10Y"].reason = "No rolling returns calculated"
  /\ calc.results["5Y"].computed

\* C25: for each point of a history and each window that is looked up, with
\* d the point's date less the window's days, the past NAV is the one stored
\* at the earliest of d, d+1, .., d+5 that has a NAV, and there is no sample
\* when none of them has one: no date before d or after d+5 is used.
C25_ProbeWithinFiveDays ==
  calc.pc = "returned" =>
    \A w \in Windows : \A i \in 1..Len(calc.results[w].past) :
      LET d == calc.navHistory[i].date - windowToDays(w)
          present == DatesIn(calc.navHistory) \cap (d..(d + Tolerance))
          used == calc.results[w].past[i]
      IN IF present = {} THEN used = -1
         ELSE used \in present /\ \A x \in present : used <= x

\* the greatest NAV among the first i points
RECURSIVE PeakUpTo(_, _)
PeakUpTo(h, i) == IF i = 1 THEN h[1].nav ELSE Max(h[i].nav, PeakUpTo(h, i - 1))

Reference(stored, cfg, t) ==
  LET tokens0 == IF stored.present THEN stored.tokens ELSE cfg.capacity
      last0   == IF stored.present THEN stored.last_refill ELSE t
      toAdd   == ((t - last0) * cfg.refillRate) \div cfg.intervalMs
      tokens  == IF toAdd > 0 THEN Min(cfg.capacity, tokens0 + toAdd) ELSE tokens0
      last    == IF toAdd > 0 THEN t ELSE last0
      rest    == (cfg.intervalMs * (1 - tokens)) % cfg.refillRate
      wait    == (cfg.intervalMs * (1 - tokens)) \div cfg.refillRate + (IF rest = 0 THEN 0 ELSE 1)
  IN IF tokens >= 1
       THEN [allowed |-> TRUE, waitTimeMs |-> 0, tokens |-> tokens - 1, last_refill |-> last]
       ELSE [allowed |-> FALSE, waitTimeMs |-> wait, tokens |-> tokens, last_refill |-> last]

\* C28: a bucket check the script runs at time t on the stored state
\* (tokens, last_refill) answers and stores the reference result: a missing
\* bucket starts at (capacity, t); tokens_to_add = floor((t - last_refill) /
\* interval_ms x refill_rate); a positive tokens_to_add refills up to the
\* capacity and moves last_refill to t, otherwise both stay; with a token
\* the check is allowed and stores tokens - 1, otherwise it is denied,
\* stores the refilled state and answers wait = ceil((1 - tokens) /
\* refill_rate x interval_ms).
C28_ReferenceCheck ==
  [][\A w \in Workers :
       (wpc[w] = "evalsha" /\ Len(wl'[w].results) = Len(wl[w].results) + 1) =>
         LET b == buckets[wl[w].idx]
             ref == Reference(store[b], rateLimiting[b], wl[w].t)
             result == wl'[w].results[Len(wl'[w].results)]
         IN /\ result.allowed = ref.allowed
            /\ result.waitTimeMs = ref.waitTimeMs
            /\ store'[b] = [present |-> TRUE, tokens |-> ref.tokens, last_refill |-> ref.last_refill]
            /\ \A o \in BucketNames \ {b} : store'[o] = store[o]]_vars

\* a check was denied with the bucket empty, and a later check of a bucket
\* found no token to add
C28_Witness ==
  /\ backend = "standard"
  /\ \E w \in Workers :
       /\ Len(wl[w].results) = 2
       /\ ~wl[w].results[1].allowed
       /\ wl[w].results[1].waitTimeMs = 1
       /\ wl[w].results[2].allowed
       /\ wl[w].t > store["per_minute"].last_refill
  /\ store["per_second"].tokens = 0

\* C29: acquireToken checks the three buckets one after another in the
\* order per_second, per_minute, per_hour and checks all three even after an
\* earlier bucket has denied; a bucket that has a token is decremented also
\* when the acquire is already denied, and nothing is rolled back: the only
\* writes to the store are those of the checks.
C29_AllBucketsNoRollback ==
  [][/\ \A w \in Workers :
          /\ wpc'[w] = "ret" =>
               /\ Len(wl'[w].results) = 3
               /\ wl'[w].allowed = (\A k \in 1..3 : wl'[w].results[k].allowed)
          /\ (wpc[w] = "evalsha" /\ Len(wl'[w].results) = Len(wl[w].results) + 1) =>
               LET k == Len(wl'[w].results)
                   b == buckets[k]
                   ref == Reference(store[b], rateLimiting[b], wl[w].t)
               IN /\ b = <<"per_second", "per_minute", "per_hour">>[k]
                  /\ \A o \in BucketNames \ {b} : store'[o] = store[o]
                  /\ wl'[w].results[k].allowed = ref.allowed
                  /\ ref.allowed => store'[b].tokens = ref.tokens
                  /\ wl'[w].allowed = (wl[w].allowed /\ ref.allowed)
     /\ store' # store =>
          \E w \in Workers : /\ wpc[w] = "evalsha"
                             /\ Len(wl'[w].results) = Len(wl[w].results) + 1]_vars

\* an acquire that per_second denied has gone on to take a token from
\* per_minute and from per_hour, and is about to return denied
C29_Witness ==
  \E w \in Workers :
    /\ wpc[w] = "ret"
    /\ ~wl[w].allowed
    /\ ~wl[w].results[1].allowed
    /\ wl[w].results[2].allowed
    /\ wl[w].results[3].allowed
    /\ store["per_minute"].tokens = 0
    /\ store["per_hour"].tokens = 1

(***************************************************************************)
(* Claims about scheme discovery.                                          *)
(***************************************************************************)
\* C27: the list discoverSchemes returns holds no scheme_code more than
\* once, even when the upstream catalog lists a scheme code several times.
C27_Deduplicated ==
  discovery.pc = "returned" =>
    \A i, j \in 1..Len(discovery.result) :
      i # j => discovery.result[i].schemeCode # discovery.result[j].schemeCode

(***************************************************************************)
(* Claims about recovery.                                                  *)
(***************************************************************************)
\* the positions of a run inside backfillAllSchemes' loop
BackfillLoop == {"find", "ensureFund", "create", "refind", "inProgress", "waitForToken",
                 "getSchemeData", "upsertFund", "upsertNavHistory", "completed", "failed"}

\* every scheme's backfill row is 'completed'
AllCompleted == \A s \in Schemes : syncState[s]["backfill"].status = "completed"

\* C30: when the upstream and the store stop failing and full runs keep
\* being triggered, every discovered scheme's backfill row becomes
\* 'completed' and stays so; a run that finds the row 'failed', 'in_progress'
\* or 'pending' backfills the scheme again from the whole history, and a run
\* moves on to the next scheme after a failure without a second attempt.
C30_Recovery ==
  /\ <>[]AllCompleted
  /\ [][\A c \in Callers :
          (runs[c].pc \in BackfillLoop /\ runs'[c] # runs[c]) =>
            /\ runs'[c].pc \in BackfillLoop => runs'[c].i \in {runs[c].i, runs[c].i + 1}
            /\ (runs[c].pc = "failed" /\ runs'[c].pc \in BackfillLoop) =>
                 runs'[c].i = runs[c].i + 1 /\ runs'[c].pc = "find"
            /\ (/\ runs[c].pc \in {"find", "refind"}
                /\ runs'[c].pc \in BackfillLoop
                /\ syncState[Cur(c)]["backfill"].status \in {"failed", "in_progress", "pending"}) =>
                 runs'[c].i = runs[c].i /\ runs'[c].pc = "inProgress"
            /\ (runs[c].pc = "getSchemeData" /\ runs'[c].pc = "upsertFund") =>
                 runs'[c].navHistory = normalizeSchemeData(NewestFirst(upstream))]_vars

\* all schemes are completed, one of them after a failed attempt and one
\* after a kill, each fetched again by a later run
C30_Witness ==
  /\ AllCompleted
  /\ injected = MaxInjected
  /\ \E s \in Schemes : bfFetches[s] >= 2
  /\ \A c \in Callers : runs[c].pc = "idle"

(***************************************************************************)
(* Claims about the order of the work inside a run.                        *)
(***************************************************************************)
\* C31: a run processes its schemes strictly one at a time: it issues the
\* in_progress write of a scheme only when it has no scheme of its own left
\* without a completed / failed write, so at most one row it wrote is
\* 'in_progress', and the run waits for at most one limiter token or
\* upstream answer, that of the scheme it is at.
C31_OneSchemeAtATime ==
  [][\A c \in Callers :
       /\ Cardinality(runs'[c].open) <= 1
       /\ (runs[c].pc = "inProgress" /\ runs'[c].pc = "waitForToken") =>
            /\ runs[c].open = {}
            /\ runs'[c].open = {Cur(c)}
            /\ syncState'[Cur(c)][SyncType(c)].status = "in_progress"
       /\ runs'[c].pc \in {"waitForToken", "getSchemeData"} =>
            runs'[c].open = {runs'[c].schemes[runs'[c].i]}
       /\ (runs[c].pc \in BackfillLoop /\ runs'[c].pc \in BackfillLoop /\ runs'[c].i # runs[c].i) =>
            /\ runs'[c].i = runs[c].i + 1
            /\ runs'[c].open = {}]_vars

\* a run is at its last scheme, in progress, after it completed one scheme
\* and failed another
C31_Witness ==
  \E c \in Callers :
    /\ runs[c].pc = "getSchemeData"
    /\ runs[c].i = NumSchemes
    /\ syncState[1]["backfill"].status = "completed"
    /\ syncState[2]["backfill"].status = "failed"
    /\ syncState[NumSchemes]["backfill"].status = "in_progress"
    /\ runs[c].touched = Schemes

(***************************************************************************)
(* Claims about the pipeline-status row.                                   *)
(***************************************************************************)
\* the bounds of progress_percent in a phase of a full run
PhaseBounds(phase) ==
  IF phase = "discovery" THEN 0..10
  ELSE IF phase = "backfill" THEN 10..70
  ELSE IF phase = "analytics" THEN 70..100
  ELSE {100}

\* C32: during a full run, once its write of 0 is applied, the stored
\* progress_percent never decreases and lies within the bounds of the
\* stored phase (0..10 discovery, 10..70 backfill, 70..100 analytics, 100
\* after the completion write): no progress write of an earlier phase lands
\* after a write of a later phase or after the completion write.
C32_ProgressMonotone ==
  [][\A c \in Callers :
       (/\ runs[c].mode = "full"
        /\ runs'[c].mode = "full"
        /\ runs[c].pc \notin {"idle", "markRunning", "progress0", "markFailed", "getPipelineStatus",
                            "returned", "thrown"}
        /\ \A d \in Callers \ {c} : runs[d].pc = "idle" /\ runs'[d].pc = "idle") =>
         /\ pipelineStatus'.progressPercent >= pipelineStatus.progressPercent
         /\ pipelineStatus'.progressPercent \in PhaseBounds(pipelineStatus'.currentPhase)]_vars

\* the positions of a run between its markRunning write and its completion
\* or failure write
Working == {"idle", "markRunning", "markFailed", "getPipelineStatus", "returned", "thrown"}

\* C33: from the moment a run's markRunning write is applied until the run
\* issues its completion or failure write, pipeline_status.status is
\* 'running': no write of an earlier run lands on the row in between.
C33_RunningWhileInFlight ==
  \A c \in Callers : runs[c].pc \notin Working => pipelineStatus.status = "running"

(***************************************************************************)
(* Claims about the run flag.                                              *)
(***************************************************************************)
\* C34: when a run has ended, by return or by any exception, the run flag
\* is false (isSyncRunning() is false and the next trigger is accepted), and
\* the flag is never set while no run is in flight.
C34_FlagReleased ==
  [][/\ \A c \in Callers :
          (InFlight(c) /\ runs'[c].pc \in {"returned", "thrown"}) => ~isRunning'
     /\ isRunning' => \E c \in Callers : runs'[c].pc \notin {"idle", "returned", "thrown"}]_vars

(***************************************************************************)
(* Claims about the stored bucket state.                                   *)
(***************************************************************************)
\* the last_refill values a check with timestamp t can leave for a bucket
\* it found as `hash`: the one it found, or its own timestamp
RefillTimes(hash, t) == {t} \cup (IF hash.present THEN {hash.last_refill} ELSE {})

\* C35: starting from missing buckets, whatever checks the workers make,
\* a stored token count is an integer in 0..capacity, and last_refill is
\* never later than the greatest timestamp of a check so far: every
\* last_refill a check computes or writes is its own timestamp or the
\* last_refill it found in the store, so each one is the timestamp of some
\* check made so far, and none is later than the clock.
C35_StoredStateInRange ==
  [][/\ \A b \in BucketNames :
          /\ store'[b].present =>
               /\ store'[b].tokens \in 0..rateLimiting[b].capacity
               /\ store'[b].last_refill <= now'
          /\ store'[b] # store[b] =>
               \E w \in Workers :
                 /\ wpc[w] \in {"evalsha", "hset"}
                 /\ buckets[wl[w].idx] = b
                 /\ wl'[w] # wl[w]
                 /\ store'[b].present
                 /\ store'[b].last_refill \in
                      (IF wpc[w] = "hset" THEN {wl[w].res.hash.last_refill}
                       ELSE RefillTimes(store[b], wl[w].t))
     /\ \A w \in Workers :
          (wpc[w] = "hgetall" /\ wpc'[w] = "hset") =>
            /\ wl'[w].res.hash.present
            /\ wl'[w].res.hash.tokens \in 0..CurConfig(w).capacity
            /\ wl'[w].res.hash.last_refill \in RefillTimes(store[CurBucket(w)], wl[w].t)]_vars

\* two workers have drained per_second, and a bucket has been refilled at a
\* later time
C35_Witness ==
  /\ store["per_second"].present
  /\ store["per_second"].tokens = 0
  /\ \E b \in BucketNames : store[b].present /\ store[b].last_refill = 1
  /\ \A w \in Workers : calls > 2 /\ wpc[w] # "idle"

\* C38: on the Upstash backend a bucket drained to 0 tokens is read back as
\* holding 0 tokens, not as a missing bucket: a check that reads it before a
\* refill is due is denied, and peekBucket reports tokens = 0, not null.
C38_ZeroReadAsZero ==
  [][/\ \A w \in Workers :
          (wpc[w] = "hgetall" /\ wpc'[w] = "hset") =>
            LET h == store[CurBucket(w)]
            IN (h.present /\ h.tokens = 0 /\ TokensToAdd(wl[w].t - h.last_refill, CurConfig(w)) <= 0) =>
                 ~wl'[w].res.allowed
     /\ backend = "upstash" =>
          \A b \in BucketNames :
            (store'[b].present /\ store'[b].tokens = 0) =>
              \A bucket \in hgetall(store'[b]) : peekBucket(bucket).tokens = 0]_vars

(***************************************************************************)
(* Claims about the wait a denied check returns.                           *)
(***************************************************************************)
\* worker w's check of its current bucket answers in this step and denies
Denies(w) ==
  /\ wpc[w] \in {"evalsha", "hset"}
  /\ Len(wl'[w].results) = Len(wl[w].results) + 1
  /\ ~wl'[w].results[Len(wl'[w].results)].allowed

\* every check of the stored bucket at time t is allowed
AllowedAt(hash, cfg, t) ==
  IF backend = "upstash"
    THEN \A bucket \in hgetall(hash) : UpstashCompute(bucket, cfg, t).allowed
    ELSE TOKEN_BUCKET_LUA(hash, cfg, 1, t).allowed

\* C36: if a check of a bucket at time t is denied with wait w, then the
\* next check of the bucket, made at any time >= t + w on the state the
\* denied check left, is allowed: the wait is long enough for one token to
\* be refilled.
C36_WaitSuffices ==
  [][\A w \in Workers :
       Denies(w) =>
         LET b    == CurBucket(w)
             wait == wl'[w].results[Len(wl'[w].results)].waitTimeMs
         IN \A t \in (wl[w].t + wait)..(wl[w].t + wait + MaxTime) :
              AllowedAt(store'[b], rateLimiting[b], t)]_vars

(***************************************************************************)
(* waitForToken over the buckets of the default configuration, one caller, *)
(* a store that answers.  Times are in milliseconds.                       *)
(***************************************************************************)
\* config.rateLimiting when no RATE_LIMIT_* variable is set
defaultRateLimiting ==
  [ per_second |-> [capacity |-> 2, refillRate |-> 2, intervalMs |-> 1000],
    per_minute |-> [capacity |-> 50, refillRate |-> 50, intervalMs |-> 60000],
    per_hour   |-> [capacity |-> 300, refillRate |-> 300, intervalMs |-> 3600000] ]

\* a deadline shorter than the refill period of the per_hour bucket
ShortMaxWaitMs == JitterMs * 200

\* waitForToken(requestId = 'unknown', maxWaitMs = 300000)
DefaultMaxWaitMs == 300000

\* the stored bucket after k checks with the same timestamp t
RECURSIVE AfterChecks(_, _, _, _)
AfterChecks(hash, cfg, k, t) ==
  IF k = 0 THEN hash
  ELSE IF k = 1 THEN TOKEN_BUCKET_LUA(hash, cfg, 1, t).hash
  ELSE CHOOSE h \in {AfterChecks(half, cfg, k - (k \div 2), t) :
                      half \in {AfterChecks(hash, cfg, k \div 2, t)}} : TRUE

\* earlier use of the limiter: a burst of k acquires at time 0 on missing
\* buckets (every acquire checks all three buckets), the call under study
\* starting `age` ms later
BurstSizes == {0, 1, 2, 49, 50, 299, 300}
Ages == {0, 499, 500, 1199, 1200, 11999, 12000}
\* the time from the end of one waitForToken call to the next
CallGaps == {0, 500}
MaxWaitCalls == 2

DefaultInit ==
  /\ \E k \in BurstSizes :
       store = [b \in BucketNames |-> AfterChecks(Missing, defaultRateLimiting[b], k, 0)]
  /\ clock \in Ages
  /\ waiter = NoWait
  /\ backend \in {"standard", "upstash"}
  /\ now = 0
  /\ wpc = [w \in Workers |-> "idle"]
  /\ wl = [w \in Workers |-> NoLocals]
  /\ scriptSha = TRUE
  /\ serverScript = TRUE
  /\ calls = 0
  /\ faults = 0
  /\ admitted = [t \in Times |-> 0]
  /\ avail = [b \in BucketNames |-> rateLimiting[b].capacity]
  /\ granted = [b \in BucketNames |-> 0]
  /\ PipelineInit

\* the store and the waiter aside
DefaultFrame ==
  /\ UNCHANGED <<backend, now, wpc, wl, scriptSha, serverScript, faults, admitted, avail, granted>>
  /\ UNCHANGED <<pvars, tvars>>

\* waitForToken(requestId): const startTime = Date.now()
waitForTokenDefault ==
  /\ waiter.pc = "idle"
  /\ calls < MaxWaitCalls
  /\ calls' = calls + 1
  /\ \E gap \in CallGaps :
       /\ clock' = clock + gap
       /\ waiter' = [NoWait EXCEPT !.pc = "while", !.maxWaitMs = DefaultMaxWaitMs,
                                   !.startTime = clock + gap]
  /\ UNCHANGED store
  /\ DefaultFrame

\* checkBucket for one bucket at time t: the script, or the client's
\* arithmetic on the reply of hgetall
checkBucketDefault(b, reply, t) ==
  IF backend = "upstash"
    THEN UpstashCompute(reply, defaultRateLimiting[b], t)
    ELSE TOKEN_BUCKET_LUA(store[b], defaultRateLimiting[b], 1, t)

\* const result = await acquireToken(requestId): the three checks in order,
\* each writing its bucket, and the object acquireToken returns
acquireTokenDefault ==
  /\ waiter.pc = "acquireToken"
  /\ \E d \in AcquireDurations :
     \E r1 \in hgetall(store["per_second"]), r2 \in hgetall(store["per_minute"]),
        r3 \in hgetall(store["per_hour"]) :
       LET reply  == [per_second |-> r1, per_minute |-> r2, per_hour |-> r3]
           res3   == [b \in BucketNames |-> checkBucketDefault(b, reply[b], clock)]
           l      == LoopBody(LoopBody(LoopBody([NoLocals EXCEPT !.idx = 1],
                                 Result(res3[buckets[1]])), Result(res3[buckets[2]])),
                                 Result(res3[buckets[3]]))
           result == [allowed |-> Returned(l).allowed, waitTimeMs |-> Returned(l).waitTimeMs]
       IN /\ store' = [b \in BucketNames |-> res3[b].hash]
          /\ clock' = clock + d
          /\ waiter' = AfterAcquireToken([waiter EXCEPT !.acquireMs = d], result, clock + d)
  /\ UNCHANGED calls
  /\ DefaultFrame

\* the caller has its answer; time goes on
waitForTokenDefaultEnds ==
  /\ waiter.pc \in {"true", "false"}
  /\ waiter' = NoWait
  /\ UNCHANGED <<clock, store, calls>>
  /\ DefaultFrame

NextDefaultWait ==
  \/ waitForTokenDefault
  \/ waitForTokenWhile
  \/ acquireTokenDefault
  \/ waitForTokenSleep
  \/ waitForTokenDefaultEnds

\* the event loop resumes the call when its await settles, the store
\* answers, and a timer fires when it is due
FairDefaultWait == WF_vars(waitForTokenWhile \/ acquireTokenDefault \/ waitForTokenSleep)

SpecDefaultWait == DefaultInit /\ [][NextDefaultWait]_vars /\ FairDefaultWait

\* C37: with a store that answers, the default buckets and no other user of
\* the limiter, a waitForToken call with the default deadline never returns
\* false and eventually returns true.
C37_ReturnsTrue ==
  /\ [](waiter.pc # "false")
  /\ (waiter.pc = "while") ~> (waiter.pc = "true")

\* a call returns true after denied attempts that took tokens from the
\* buckets that did not deny
C37_Witness ==
  /\ waiter.pc = "true"
  /\ waiter.attempts >= 3

(***************************************************************************)
(* Claims about a failure while one scheme is processed.                   *)
(***************************************************************************)
\* the positions inside getSyncState, which the loops call outside any try
InGetSyncState == {"find", "ensureFund", "create", "refind"}
\* the positions inside the try block of backfillScheme / syncScheme
InTry == {"inProgress", "waitForToken", "getSchemeData", "upsertFund", "upsertNavHistory",
          "getLatestNavDate", "getNavCount", "completed"}

\* the run's loop has gone on from scheme i to the next one, or has ended
\* after the last one, without an exception
GoesOn(c, body) ==
  /\ runs'[c].i = IF runs[c].i < Len(runs[c].schemes) THEN runs[c].i + 1 ELSE 0
  /\ runs'[c].schemes = runs[c].schemes
  /\ runs'[c].pc \in (IF runs[c].i < Len(runs[c].schemes) THEN {body}
                      ELSE {"phaseAnalytics", "markCompleted"})

C40_ShortSpanNoRow ==
  calc.pc = "returned" =>
    \A w \in Windows :
      LET h == calc.navHistory
          r == calc.results[w]
      IN (Len(h) >= 1 /\ h[Len(h)].date - h[1].date < windowToDays(w) - Tolerance) =>
           /\ ~r.computed
           /\ ~TooShort(h[Len(h)].date - h[1].date, windowToDays(w)) =>
                /\ r.reason = "No rolling returns calculated"
                /\ \A i \in 1..Len(h) : r.past[i] = -1

\* a history that spans 359 days, six days short of the 1Y window, has
\* passed the 90% test of that window and has given no sample
C40_Witness ==
  /\ calc.pc = "returned"
  /\ Len(calc.navHistory) >= 2
  /\ calc.navHistory[Len(calc.navHistory)].date - calc.navHistory[1].date
       = windowToDays("1Y") - Tolerance - 1
  /\ calc.results["1Y"].reason = "No rolling returns calculated"
====
